---- MODULE Spec2Model ----
(***************************************************************************)
(* Lifecycle engine of the photo-sharing backend: soft delete, restore,    *)
(* scheduled purge and the auto-expiry passes, over the OrientDB vertex    *)
(* classes Photographer, Client, Guest, Photo, PhotoCollection and the     *)
(* CollectionPhoto edge class.                                             *)
(*                                                                         *)
(* The clock counts ticks of half a week.  A vertex slot n of class cls    *)
(* has the record id Rid(cls, n) and the surrogate id Uuid(cls, n); the    *)
(* two id spaces are disjoint, as a '#12:3' record id never equals a       *)
(* uuidv4.                                                                 *)
(***************************************************************************)
EXTENDS Integers, FiniteSets, Sequences, TLC

VARIABLES
  db,        \* the vertex classes and the CollectionPhoto edge class
  used,      \* per class, how many record ids / uuids have been handed out
  now,       \* the clock, in ticks
  restored,  \* vertices restoreDeleted has restored and nothing has marked since
  pending,   \* delete-collection requests between their SELECT and their
             \* UPDATEs, and sweep passes between their queries
  sessions,    \* the RefreshToken class: session id -> its row
  sessionIds,  \* how many session ids generateSessionId has handed out
  response,    \* what the auth handler that ran last answered
  inflight,    \* refresh requests between their queries
  revoked,     \* session ids a completed logout or revoke-all has covered
  collectionAccess,  \* the CollectionAccess edge class
  photoAccess,       \* the PhotoAccess edge class
  sharing,     \* share / add-photos requests between their check and CREATE EDGE
  served       \* what the read request that ran last returned

\* the state of the session service, which the lifecycle engine leaves alone
authVars == <<sessions, sessionIds, response, inflight, revoked>>

\* the state of sharing, which the lifecycle engine and the session service
\* leave alone
shareVars == <<collectionAccess, photoAccess, sharing, served>>

vars == <<db, used, now, restored, pending, authVars, shareVars>>

(* ---- bounds ---------------------------------------------------------- *)
MaxSessions == 3
MaxInflight == 1
MaxSharing == 2
MaxShareGuests == 2
MaxSharePhotos == 2
MaxSweeps == 2
MaxRotations == 2
MaxPhotographers == 1
MaxClients == 1
MaxGuests == 1
MaxPhotos == 1
MaxCollections == 1
MaxTime == 4

(* ---- program constants ----------------------------------------------- *)
TicksPerWeek == 2
GraceDays == 7
ExpirationDays == 7
ExpiryDays == 7
SessionDays == 7
Null == -1
NoReason == "null"

\* a duration of n days, in ticks
Days(n) == (n * TicksPerWeek) \div 7

GracePeriod == Days(GraceDays)

Classes == {"Photographer", "Client", "Guest", "Photo", "PhotoCollection"}

Slots(cls) ==
  CASE cls = "Photographer" -> 1..MaxPhotographers
    [] cls = "Client" -> 1..MaxClients
    [] cls = "Guest" -> 1..MaxGuests
    [] cls = "Photo" -> 1..MaxPhotos
    [] cls = "PhotoCollection" -> 1..MaxCollections

Rid(cls, n) == <<"rid", cls, n>>
Uuid(cls, n) == <<"uuid", cls, n>>

AdminReasons == {"Admin deletion"}

\* a request without the sessionId cookie
NoCookie == 0
NoUser == <<"rid", "none", 0>>

\* a link property of a PhotoAccess row that was never set
NoLink == <<"rid", "none", 0>>

\* no request that records its answer has run yet; mail is what the
\* notification collaborator did during the request
NothingServed ==
  [path |-> "none", key |-> NoLink, status |-> 0, photos |-> {},
   mail |-> "none"]

\* no auth handler has answered yet
NoResponse ==
  [op |-> "none", cookie |-> NoCookie, status |-> 0, token |-> FALSE,
   userId |-> NoUser, newSessionId |-> NoCookie]

(* ---- dateFormatter ---------------------------------------------------- *)
(* A stored datetime drops what is below the resolution of the            *)
(* 'yyyy-MM-dd HH:mm:ss' format; the model keeps stored datetimes to the  *)
(* week, so that the clock is finer than what the store keeps.            *)
toOrientDBDateTime(t) == t - (t % TicksPerWeek)

(* ---- the store ------------------------------------------------------- *)
Rows(cls) == DOMAIN db[cls]

NewVertex(uuid, owner, timer) ==
  [id |-> uuid, owner |-> owner, timer |-> timer, isActive |-> TRUE,
   deletedAt |-> Null, scheduledDeletionDate |-> Null,
   deletionReason |-> NoReason, lastLogin |-> Null]

InsertVertex(d, cls, n, rec) ==
  [d EXCEPT ![cls] = [m \in DOMAIN @ \cup {n} |-> IF m = n THEN rec ELSE @[m]]]

\* an edge class holds, for each pair of vertices, the number of its edges
\* between them; CREATE EDGE adds one edge for each pair in S
CreateEdges(E, S) ==
  [e \in DOMAIN E \cup S |->
     (IF e \in DOMAIN E THEN E[e] ELSE 0) + (IF e \in S THEN 1 ELSE 0)]

DeleteVertex(d, cls, S) ==
  [d EXCEPT ![cls] = [m \in DOMAIN @ \ S |-> @[m]],
            !.CollectionPhoto =
               [e \in {x \in DOMAIN @ :
                         ~ \/ (cls = "PhotoCollection" /\ x[1] \in S)
                           \/ (cls = "Photo" /\ x[2] \in S)} |-> @[e]]]

\* DELETE VERTEX takes the edges of the vertex with it: what is left of the
\* CollectionAccess edges A and of the PhotoAccess rows PA once the store is
\* d.  A PhotoAccess row made by INSERT has no in and no out and stays.
LiveAccess(d, A) ==
  [e \in {x \in DOMAIN A : /\ x[1] \in DOMAIN d.PhotoCollection
                            /\ x[2] \in DOMAIN d.Client} |-> A[e]]

IsVertex(d, r) == r[2] \in DOMAIN d /\ r[3] \in DOMAIN d[r[2]]

LiveRows(d, PA) ==
  {e \in PA : /\ e.out = NoLink \/ IsVertex(d, e.out)
              /\ e.in = NoLink \/ IsVertex(d, e.in)}

\* UPDATE cls SET ...: the rows in DOMAIN new take their new records
UpdateWhere(d, cls, new) ==
  [d EXCEPT ![cls] =
     [m \in DOMAIN @ |-> IF m \in DOMAIN new THEN new[m] ELSE @[m]]]

\* SELECT ... FROM cls WHERE <uuid field> = :entityId
ByUuid(d, cls, entityId) == {m \in DOMAIN d[cls] : d[cls][m].id = entityId}

\* Photo WHERE @rid IN (SELECT expand(in) FROM CollectionPhoto WHERE out IN
\*   (SELECT FROM PhotoCollection WHERE collectionId = :collectionId))
PhotosInCollection(d, collectionId) ==
  {p \in DOMAIN d.Photo :
     \E c \in ByUuid(d, "PhotoCollection", collectionId) :
        <<c, p>> \in DOMAIN d.CollectionPhoto}

Scheduled(rec) == rec.scheduledDeletionDate # Null

\* the scheduled purge of a mark made at t still falls inside the horizon
CanScheduleAt(t) == toOrientDBDateTime(t) + GracePeriod <= MaxTime
CanSchedule == CanScheduleAt(now)

(* ---- SoftDeleteService ------------------------------------------------ *)
\* variant: the purge is scheduled for the moment of the mark, no grace
MarkedRecordNoGrace(rec, t, reason) ==
  [rec EXCEPT !.deletedAt = toOrientDBDateTime(t),
              !.scheduledDeletionDate = toOrientDBDateTime(t),
              !.deletionReason = reason,
              !.isActive = FALSE]

\* variant: a vertex already marked keeps the dates of its first mark
MarkedRecordKeepsFirst(rec, t, reason) ==
  [rec EXCEPT !.deletedAt =
                IF @ = Null THEN toOrientDBDateTime(t) ELSE @,
              !.scheduledDeletionDate =
                IF @ = Null THEN toOrientDBDateTime(t + GracePeriod) ELSE @,
              !.deletionReason = reason,
              !.isActive = FALSE]

MarkedRecord(rec, t, reason) ==
  [rec EXCEPT !.deletedAt = toOrientDBDateTime(t),
              !.scheduledDeletionDate = toOrientDBDateTime(t + GracePeriod),
              !.deletionReason = reason,
              !.isActive = FALSE]

\* the UPDATE of markForDeletion on the rows S of cls
MarkRows(d, cls, S, reason, t) ==
  UpdateWhere(d, cls, [m \in S |-> MarkedRecord(d[cls][m], t, reason)])

markForDeletion(d, cls, entityId, reason, t) ==
  MarkRows(d, cls, ByUuid(d, cls, entityId), reason, t)

\* variant: isActive is set back, the schedule stays
RestoredRecordKeepsDate(rec) ==
  [rec EXCEPT !.deletedAt = Null,
              !.deletionReason = NoReason,
              !.isActive = TRUE]

RestoredRecord(rec) ==
  [rec EXCEPT !.deletedAt = Null,
              !.scheduledDeletionDate = Null,
              !.deletionReason = NoReason,
              !.isActive = TRUE]

\* the UPDATE of restoreDeleted on the rows S of cls
RestoreRows(d, cls, S) ==
  UpdateWhere(d, cls, [m \in S |-> RestoredRecord(d[cls][m])])

restoreDeleted(d, cls, entityId) ==
  RestoreRows(d, cls, ByUuid(d, cls, entityId))

\* variant: every scheduled vertex, whatever its date
DueWhateverDate(d, cls, t) ==
  {m \in DOMAIN d[cls] : d[cls][m].scheduledDeletionDate # Null}

\* WHERE scheduledDeletionDate <= :now AND scheduledDeletionDate IS NOT NULL
Due(d, cls, t) ==
  {m \in DOMAIN d[cls] :
     /\ d[cls][m].scheduledDeletionDate # Null
     /\ d[cls][m].scheduledDeletionDate <= toOrientDBDateTime(t)}

\* WHERE <ownerField> = :rid, for the record ids of the vertices in S
OwnedByRid(d, cls, ownerCls, S) ==
  {m \in DOMAIN d[cls] : \E o \in S : d[cls][m].owner = Rid(ownerCls, o)}

PurgePhotographers(d, t) ==
  LET phs == Due(d, "Photographer", t)
      cls == OwnedByRid(d, "Client", "Photographer", phs)
      d1 == DeleteVertex(d, "Guest", OwnedByRid(d, "Guest", "Client", cls))
      d2 == DeleteVertex(d1, "Client", cls)
      d3 == DeleteVertex(d2, "Photo",
                         OwnedByRid(d2, "Photo", "Photographer", phs))
      d4 == DeleteVertex(d3, "PhotoCollection",
                         OwnedByRid(d3, "PhotoCollection", "Photographer", phs))
  IN DeleteVertex(d4, "Photographer", phs)

PurgeClients(d, t) ==
  LET cls == Due(d, "Client", t)
      d1 == DeleteVertex(d, "Guest", OwnedByRid(d, "Guest", "Client", cls))
  IN DeleteVertex(d1, "Client", cls)

\* variant: the step for a class deletes nothing
PurgeStandaloneSkipped(d, cls, t) == d

PurgeStandalone(d, cls, t) == DeleteVertex(d, cls, Due(d, cls, t))

cleanupScheduledDeletionsResult(d, t) ==
  LET d1 == PurgePhotographers(d, t)
      d2 == PurgeClients(d1, t)
      d3 == PurgeStandalone(d2, "Guest", t)
      d4 == PurgeStandalone(d3, "Photo", t)
  IN PurgeStandalone(d4, "PhotoCollection", t)

Init ==
  /\ db = [Photographer |-> <<>>, Client |-> <<>>, Guest |-> <<>>,
           Photo |-> <<>>, PhotoCollection |-> <<>>, CollectionPhoto |-> <<>>]
  /\ used = [cls \in Classes |-> 0]
  /\ now = 0
  /\ restored = {}
  /\ pending = {}
  /\ sessions = <<>>
  /\ sessionIds = 0
  /\ response = NoResponse
  /\ inflight = {}
  /\ revoked = {}
  /\ collectionAccess = <<>>
  /\ photoAccess = {}
  /\ sharing = {}
  /\ served = NothingServed

\* the store becomes d; justRestored are the vertices this step restored
Commit(d, justRestored) ==
  /\ db' = d
  /\ restored' = {x \in restored \cup justRestored :
                    /\ x[2] \in DOMAIN d[x[1]]
                    /\ ~Scheduled(d[x[1]][x[2]])}

Tick ==
  /\ now < MaxTime
  /\ now' = now + 1
  /\ UNCHANGED <<db, used, restored, pending, authVars, shareVars>>

(* ---- creation --------------------------------------------------------- *)
\* the INSERT of a creation request
CreateWrites(cls, owner, timer) ==
  /\ used[cls] < Cardinality(Slots(cls))
  /\ LET n == used[cls] + 1
     IN /\ Commit(InsertVertex(db, cls, n,
                                NewVertex(Uuid(cls, n), owner, timer)), {})
        /\ used' = [used EXCEPT ![cls] = n]
  /\ UNCHANGED <<now, pending, authVars, collectionAccess, photoAccess,
                 sharing>>

Create(cls, owner, timer) ==
  /\ CreateWrites(cls, owner, timer)
  /\ UNCHANGED served

\* a principal that holds an access token: login found it and isActive
LoggedIn(cls) == {m \in Rows(cls) : db[cls][m].isActive}

createPhotographer ==
  Create("Photographer", Null, Null)

\* photographerId = req.user.photographerId || req.user.userId
createClient ==
  \E ph \in LoggedIn("Photographer") :
    Create("Client", db.Photographer[ph].id, Null)

\* the guest email of the requests: every share names the same guest
GuestEmail == "guest@mail"

\* crypto.randomBytes: the n-th draw, a value that no other draw gives
randomBytes(n) == n

\* iv + ":" + ciphertext: two results are equal only when text and iv are
encryptSimple(text, iv) == <<iv, text>>

\* the encryptedEmail stored with guest g: the second draw of the request
\* that made it; the first draw of a request is that of its lookup
StoredEncryptedEmail(g) == encryptSimple(GuestEmail, randomBytes(2 * g))

\* Guest WHERE encryptedEmail = :encryptedEmail AND in('ClientGuests')
\* is the client AND isActive = true
ExistingGuest(d, c, encryptedEmailToCheck) ==
  {g \in DOMAIN d.Guest :
     /\ StoredEncryptedEmail(g) = encryptedEmailToCheck
     /\ d.Guest[g].owner = Rid("Client", c)
     /\ d.Guest[g].isActive}

\* CREATE EDGE PhotoAccess FROM each photo of the request TO the guest
PhotoAccessEdges(g, photoIds, t) ==
  {[out |-> Rid("Photo", p), in |-> Rid("Guest", g),
    photoId |-> NoLink, userId |-> NoLink,
    expiresAt |-> toOrientDBDateTime(t + Days(ExpirationDays)),
    isActive |-> TRUE] : p \in photoIds}

\* DELETE EDGE PhotoAccess WHERE in IN (the guest), then the CREATE EDGEs
ReplaceGuestEdges(PA, g, photoIds, t) ==
  {e \in PA : e.in # Rid("Guest", g)} \cup PhotoAccessEdges(g, photoIds, t)

\* the store after createGuest by client c for photoIds: a guest found for
\* the email takes the new expiresAt, otherwise guest g is inserted with
\* clientId = req.user.userId, the record id of the Client
createGuestResult(d, c, g, existing, t) ==
  IF existing # {}
  THEN UpdateWhere(d, "Guest",
         [m \in existing |->
            [d.Guest[m] EXCEPT !.timer =
               toOrientDBDateTime(t + Days(ExpirationDays))]])
  ELSE InsertVertex(d, "Guest", g,
         NewVertex(Uuid("Guest", g), Rid("Client", c),
                   toOrientDBDateTime(t + Days(ExpirationDays))))

\* the guest of the email, as the lookup of the request finds it
FoundGuest(d, c, g) ==
  ExistingGuest(d, c, encryptSimple(GuestEmail, randomBytes(2 * g - 1)))

\* the writes of createGuest by client c for photoIds; every photo of the
\* request is found with isActive = true
createGuestWrites(maxGuests, c, photoIds) ==
  LET g == used["Guest"] + 1
      existing == FoundGuest(db, c, g)
      guest == IF existing # {} THEN CHOOSE m \in existing : TRUE ELSE g
  IN /\ now + Days(ExpirationDays) < MaxTime
     /\ photoIds # {}
     /\ \A p \in photoIds : db.Photo[p].isActive
     /\ existing # {} \/ used["Guest"] < maxGuests
     /\ Commit(createGuestResult(db, c, g, existing, now), {})
     /\ used' = IF existing # {} THEN used
                ELSE [used EXCEPT !["Guest"] = g]
     /\ photoAccess' = ReplaceGuestEdges(photoAccess, guest, photoIds, now)
     /\ UNCHANGED <<now, pending, authVars, collectionAccess, sharing>>

createGuestWithin(maxGuests) ==
  \E c \in LoggedIn("Client") : \E photoIds \in SUBSET Rows("Photo") :
    /\ createGuestWrites(maxGuests, c, photoIds)
    /\ UNCHANGED served

createGuest == createGuestWithin(MaxGuests)

createCollection ==
  \E ph \in LoggedIn("Photographer") :
    Create("PhotoCollection", db.Photographer[ph].id, Null)

\* one file; the edge is created only from a collection found with
\* isActive = true, and autoDeleteAt is set only after a successful link
\* room: the time kept free, after the autoDeleteAt, before the horizon
uploadPhotoWithin(maxPhotos, room) ==
  \E ph \in LoggedIn("Photographer"), cn \in 1..used["PhotoCollection"] :
    /\ toOrientDBDateTime(now + Days(ExpiryDays)) + room <= MaxTime
    /\ used["Photo"] < maxPhotos
    /\ LET n == used["Photo"] + 1
           collectionId == Uuid("PhotoCollection", cn)
           d1 == InsertVertex(db, "Photo", n,
                   NewVertex(Uuid("Photo", n), db.Photographer[ph].id, Null))
           from == {c \in ByUuid(d1, "PhotoCollection", collectionId) :
                      d1.PhotoCollection[c].isActive}
           linked == [d1 EXCEPT !.CollectionPhoto =
                                    CreateEdges(@, {<<c, n>> : c \in from})]
       IN /\ Commit(IF from = {} THEN d1
                    ELSE UpdateWhere(linked, "PhotoCollection",
                           [c \in ByUuid(d1, "PhotoCollection", collectionId) |->
                              [d1.PhotoCollection[c] EXCEPT !.timer =
                                 toOrientDBDateTime(now + Days(ExpiryDays))]]),
                    {})
          /\ used' = [used EXCEPT !["Photo"] = n]
    /\ UNCHANGED <<now, pending, authVars, shareVars>>

uploadPhoto == uploadPhotoWithin(MaxPhotos, GracePeriod)

(* ---- deletion requests ------------------------------------------------ *)
\* DELETE /admin/client/:id, /admin/guest/:id, /admin/photo/:id and
\* deletePhotographer: one markForDeletion keyed by the uuid
adminDeleteOne(cls, m, reason) ==
  /\ m \in Rows(cls)
  /\ CanSchedule
  /\ Commit(markForDeletion(db, cls, db[cls][m].id, reason, now), {})
  /\ UNCHANGED <<used, now, pending, authVars, shareVars>>

adminDelete(cls) ==
  \E m \in Rows(cls), reason \in AdminReasons : adminDeleteOne(cls, m, reason)

\* EnhancedPhotoService.deletePhoto by the owning photographer
deletePhoto ==
  \E ph \in LoggedIn("Photographer"), p \in Rows("Photo") :
    /\ CanSchedule
    /\ db.Photo[p].owner = db.Photographer[ph].id
    /\ Commit(markForDeletion(db, "Photo", db.Photo[p].id,
                              "Deleted by photographer", now), {})
    /\ UNCHANGED <<used, now, pending, authVars, shareVars>>

\* the photos SELECTed for a collection, by photoId
SelectPhotoIds(d, collectionId) ==
  {d.Photo[p].id : p \in PhotosInCollection(d, collectionId)}

\* one markForDeletion per photoId, then one for the collection
MarkCascade(d, collectionId, photoIds, reason, t) ==
  LET photos == {p \in DOMAIN d.Photo : d.Photo[p].id \in photoIds}
  IN markForDeletion(
       MarkRows(d, "Photo", photos, "Deleted with collection", t),
       "PhotoCollection", collectionId, reason, t)

\* the whole request with nothing in between; a store error while marking
\* a photo ends the request with only the photos in done marked
CascadeDelete(c, reason) ==
  LET collectionId == db.PhotoCollection[c].id
      photoIds == SelectPhotoIds(db, collectionId)
  IN /\ CanSchedule
     /\ \/ Commit(MarkCascade(db, collectionId, photoIds, reason, now), {})
        \/ \E done \in SUBSET PhotosInCollection(db, collectionId) :
             /\ done # PhotosInCollection(db, collectionId)
             /\ Commit(MarkRows(db, "Photo", done,
                                "Deleted with collection", now), {})
     /\ UNCHANGED <<used, now, pending, authVars, shareVars>>

deleteCollection ==
  \E ph \in LoggedIn("Photographer"), c \in Rows("PhotoCollection") :
    /\ db.PhotoCollection[c].owner = db.Photographer[ph].id
    /\ CascadeDelete(c, "Deleted by photographer")

adminDeleteCollection ==
  \E c \in Rows("PhotoCollection"), reason \in AdminReasons :
    CascadeDelete(c, reason)

\* the same request in two steps: the ownership check and the SELECT of the
\* photos, then the UPDATEs; other requests run in between
deleteCollectionSelect ==
  \E ph \in LoggedIn("Photographer"), c \in Rows("PhotoCollection") :
    /\ pending = {}
    /\ db.PhotoCollection[c].owner = db.Photographer[ph].id
    /\ pending' = {[collectionId |-> db.PhotoCollection[c].id,
                    photoIds |-> SelectPhotoIds(db, db.PhotoCollection[c].id),
                    reason |-> "Deleted by photographer"]}
    /\ UNCHANGED <<db, used, now, restored, authVars, shareVars>>

deleteCollectionMark ==
  \E r \in pending :
    /\ CanSchedule
    /\ Commit(MarkCascade(db, r.collectionId, r.photoIds, r.reason, now), {})
    /\ pending' = {}
    /\ UNCHANGED <<used, now, authVars, shareVars>>

(* ---- restore ----------------------------------------------------------- *)
\* POST /admin/restore for a class other than PhotoCollection
restoreOne(cls, m) ==
  /\ m \in Rows(cls)
  /\ Commit(restoreDeleted(db, cls, db[cls][m].id),
            IF Scheduled(db[cls][m]) THEN {<<cls, m>>} ELSE {})
  /\ UNCHANGED <<used, now, pending, authVars, shareVars>>

restore(cls) == \E m \in Rows(cls) : restoreOne(cls, m)

\* POST /admin/restore for a PhotoCollection: its scheduled photos first
restoreCollectionOne(c) ==
  /\ c \in Rows("PhotoCollection")
  /\ LET collectionId == db.PhotoCollection[c].id
         photos == {p \in PhotosInCollection(db, collectionId) :
                      Scheduled(db.Photo[p])}
     IN Commit(restoreDeleted(RestoreRows(db, "Photo", photos),
                              "PhotoCollection", collectionId),
               {<<"Photo", p>> : p \in photos}
                 \cup (IF Scheduled(db.PhotoCollection[c])
                       THEN {<<"PhotoCollection", c>>} ELSE {}))
  /\ UNCHANGED <<used, now, pending, authVars, shareVars>>

restoreCollection == \E c \in Rows("PhotoCollection") : restoreCollectionOne(c)

(* ---- recurring passes --------------------------------------------------- *)
cleanupScheduledDeletions ==
  /\ UNCHANGED <<used, now, pending, authVars, sharing, served>>
  /\ Commit(cleanupScheduledDeletionsResult(db, now), {})
  /\ collectionAccess' =
       LiveAccess(cleanupScheduledDeletionsResult(db, now), collectionAccess)
  /\ photoAccess' =
       LiveRows(cleanupScheduledDeletionsResult(db, now), photoAccess)

\* autoDeleteAt < sysdate() AND isActive = true AND scheduledDeletionDate IS NULL
Expired(d, t) ==
  {c \in DOMAIN d.PhotoCollection :
     /\ d.PhotoCollection[c].timer # Null
     /\ d.PhotoCollection[c].timer < t
     /\ d.PhotoCollection[c].isActive
     /\ ~Scheduled(d.PhotoCollection[c])}

\* the photos of the expired collections: linked by CollectionPhoto
\* AND scheduledDeletionDate IS NULL
PhotosInExpired(d, t) ==
  {p \in DOMAIN d.Photo :
     /\ \E c \in Expired(d, t) : <<c, p>> \in DOMAIN d.CollectionPhoto
     /\ ~Scheduled(d.Photo[p])}

\* failedPhotos: photos whose mark throws (caught per photo); failedColls:
\* collections whose own mark throws (caught per collection)
cleanupExpiredCollectionsResult(d, t, failedPhotos, failedColls) ==
  LET expired == Expired(d, t)
      photos == PhotosInExpired(d, t)
  IN MarkRows(MarkRows(d, "Photo", photos \ failedPhotos,
                       "Collection expired", t),
              "PhotoCollection", expired \ failedColls,
              "Auto-delete timer expired", t)

cleanupExpiredCollections ==
  \E failedPhotos \in SUBSET PhotosInExpired(db, now),
     failedColls \in SUBSET Expired(db, now) :
    /\ CanSchedule
    /\ Commit(cleanupExpiredCollectionsResult(db, now, failedPhotos,
                                              failedColls), {})
    /\ UNCHANGED <<used, now, pending, authVars, shareVars>>

\* UPDATE Guest SET isActive = false WHERE expiresAt < :now AND isActive = true
cleanupExpiredGuestsResult(d, t) ==
  UpdateWhere(d, "Guest",
    [g \in {m \in DOMAIN d.Guest :
              d.Guest[m].timer < t /\ d.Guest[m].isActive} |->
       [d.Guest[g] EXCEPT !.isActive = FALSE]])

cleanupExpiredGuests ==
  /\ Commit(cleanupExpiredGuestsResult(db, now), {})
  /\ UNCHANGED <<used, now, pending, authVars, shareVars>>

(* ---- specifications ------------------------------------------------------ *)
Requests ==
  \/ Tick
  \/ createPhotographer
  \/ createClient
  \/ createGuest
  \/ createCollection
  \/ uploadPhoto
  \/ adminDelete("Photographer")
  \/ adminDelete("Client")
  \/ adminDelete("Guest")
  \/ adminDelete("Photo")
  \/ deletePhoto
  \/ adminDeleteCollection
  \/ restore("Photographer")
  \/ restore("Client")
  \/ restore("Guest")
  \/ restore("Photo")
  \/ restoreCollection
  \/ cleanupScheduledDeletions
  \/ cleanupExpiredCollections
  \/ cleanupExpiredGuests

\* every request handler runs with nothing in between
Next ==
  \/ Requests
  \/ deleteCollection

Spec == Init /\ [][Next]_vars

\* the photographer's collection delete runs in its two steps
NextInterleaved ==
  \/ Requests
  \/ deleteCollectionSelect
  \/ deleteCollectionMark

SpecInterleaved == Init /\ [][NextInterleaved]_vars

(* ---- the clock without a horizon ----------------------------------------- *)
(* Time has no end: when the clock reaches the horizon, the origin of the   *)
(* time axis moves forward by one week.  Every stored datetime is then one  *)
(* week smaller; one that would fall before the new origin is kept at the   *)
(* origin, where it still lies in the past of every later clock value.      *)
Earlier(t) ==
  IF t = Null THEN Null
  ELSE IF t < TicksPerWeek THEN 0 ELSE t - TicksPerWeek

Rebased(rows) ==
  [m \in DOMAIN rows |->
     [rows[m] EXCEPT !.timer = Earlier(@),
                     !.deletedAt = Earlier(@),
                     !.scheduledDeletionDate = Earlier(@)]]

Rebase ==
  /\ now = MaxTime
  /\ now' = now - TicksPerWeek
  /\ db' = [Photographer |-> Rebased(db.Photographer),
            Client |-> Rebased(db.Client),
            Guest |-> Rebased(db.Guest),
            Photo |-> Rebased(db.Photo),
            PhotoCollection |-> Rebased(db.PhotoCollection),
            CollectionPhoto |-> db.CollectionPhoto]
  /\ photoAccess' = {[e EXCEPT !.expiresAt = Earlier(@)] : e \in photoAccess}
  /\ UNCHANGED <<used, restored, pending, authVars, collectionAccess, sharing,
                 served>>

NextFair ==
  \/ Next
  \/ Rebase

\* the sweep has something to delete: running it now changes the store
SweepEnabled == cleanupScheduledDeletionsResult(db, now) # db

\* weak fairness of the sweep, WF_vars(cleanupScheduledDeletions), with
\* ENABLED <<cleanupScheduledDeletions>>_vars written out as SweepEnabled
SweepFairness ==
  \/ []<>(~SweepEnabled)
  \/ []<><<cleanupScheduledDeletions>>_vars

\* time advances, and the daily cron job runs the sweep
SpecFair ==
  /\ Init
  /\ [][NextFair]_vars
  /\ WF_vars(Tick)
  /\ WF_vars(Rebase)
  /\ SweepFairness

(* ---- RefreshTokenService ------------------------------------------------ *)
(* A RefreshToken row is kept under its sessionId; generateSessionId draws  *)
(* 32 random bytes, which the model takes as an id never handed out before. *)
SessionLifetime == Days(SessionDays)

\* a sessionId the service never handed out and, being random, never will
Forged == MaxSessions + 1

\* the sessionId cookie of a request: absent, handed out earlier, or forged
Cookies == {NoCookie, Forged} \cup (1..sessionIds)

\* the principals that can log in: guest authentication is disabled
LoginClasses == {"Photographer", "Client"}

userRole(cls) == IF cls = "Photographer" THEN "photographer" ELSE "client"

\* the class refreshToken reads the user from, by the role of the session
userClass(role) ==
  CASE role = "photographer" -> "Photographer"
    [] role = "client" -> "Client"
    [] role = "guest" -> "Guest"
    [] OTHER -> "User"

generateSessionId(n) == n + 1

\* INSERT INTO RefreshToken SET sessionId, userId, userRole, expiresAt
storeRefreshToken(s, sid, userId, role, t) ==
  [m \in DOMAIN s \cup {sid} |->
     IF m = sid
     THEN [userId |-> userId, userRole |-> role,
           expiresAt |-> toOrientDBDateTime(t + SessionLifetime)]
     ELSE s[m]]

\* variant: the expiry of the row is not looked at
validateSessionIdAnyAge(s, sid, t) == {m \in DOMAIN s : m = sid}

\* SELECT * FROM RefreshToken WHERE sessionId = :sessionId
\*   AND expiresAt > sysdate()
validateSessionId(s, sid, t) ==
  {m \in DOMAIN s : m = sid /\ s[m].expiresAt > t}

\* variant: the row is kept
revokeSessionKeeps(s, sid) == s

\* DELETE VERTEX RefreshToken WHERE sessionId = :sessionId
revokeSession(s, sid) == [m \in DOMAIN s \ {sid} |-> s[m]]

\* DELETE VERTEX RefreshToken WHERE userId = :userId
revokeAllUserTokens(s, userId) ==
  [m \in {k \in DOMAIN s : s[k].userId # userId} |-> s[m]]

\* DELETE VERTEX RefreshToken WHERE expiresAt < sysdate()
cleanupExpiredTokens(s, t) ==
  [m \in {k \in DOMAIN s : ~(s[k].expiresAt < t)} |-> s[m]]

\* variant: the old row is not deleted
rotateSessionKeepsOld(s, n, oldSessionId, userId, role, t) ==
  storeRefreshToken(s, generateSessionId(n), userId, role, t)

rotateSession(s, n, oldSessionId, userId, role, t) ==
  storeRefreshToken(revokeSession(s, oldSessionId), generateSessionId(n),
                    userId, role, t)

(* ---- AuthService ---------------------------------------------------------- *)
Answer(op, cookie, status, token, userId, newSessionId) ==
  [op |-> op, cookie |-> cookie, status |-> status, token |-> token,
   userId |-> userId, newSessionId |-> newSessionId]

\* login of the user in slot m of cls, found by its username: what the
\* handler leaves in the store and what it answers
loginResult(d, s, n, cls, m, passwordOk, t) ==
  IF d[cls][m].isActive = FALSE \/ ~passwordOk
  THEN [sessions |-> s, sessionIds |-> n,
        response |-> Answer("login", NoCookie, 401, FALSE, Rid(cls, m),
                            NoCookie)]
  ELSE [sessions |-> storeRefreshToken(s, generateSessionId(n), Rid(cls, m),
                                       userRole(cls), t),
        sessionIds |-> generateSessionId(n),
        response |-> Answer("login", NoCookie, 200, TRUE, Rid(cls, m),
                            generateSessionId(n))]

\* refreshToken with the sessionId cookie and the value of
\* ROTATE_REFRESH_TOKENS that the request finds
refreshTokenResult(s, n, cookie, rotate, t) ==
  IF cookie = NoCookie
  THEN [sessions |-> s, sessionIds |-> n,
        response |-> Answer("refresh", cookie, 401, FALSE, NoUser, NoCookie)]
  ELSE IF validateSessionId(s, cookie, t) = {}
  THEN [sessions |-> s, sessionIds |-> n,
        response |-> Answer("refresh", cookie, 403, FALSE, NoUser, NoCookie)]
  ELSE LET tokenData == s[CHOOSE m \in validateSessionId(s, cookie, t) : TRUE]
       IN IF rotate
          THEN [sessions |-> rotateSession(s, n, cookie, tokenData.userId,
                                           tokenData.userRole, t),
                sessionIds |-> generateSessionId(n),
                response |-> Answer("refresh", cookie, 200, TRUE,
                                    tokenData.userId, generateSessionId(n))]
          ELSE [sessions |-> s, sessionIds |-> n,
                response |-> Answer("refresh", cookie, 200, TRUE,
                                    tokenData.userId, NoCookie)]

logoutResult(s, cookie) ==
  IF cookie # NoCookie THEN revokeSession(s, cookie) ELSE s

\* session ids still to hand out, the rotations in flight provided for
IdsLeft == MaxSessions - sessionIds - Cardinality(inflight)

login ==
  \E cls \in LoginClasses : \E m \in Rows(cls) : \E passwordOk \in BOOLEAN :
    LET r == loginResult(db, sessions, sessionIds, cls, m, passwordOk, now)
    IN /\ IdsLeft > 0
       /\ sessions' = r.sessions
       /\ sessionIds' = r.sessionIds
       /\ response' = r.response
       /\ UNCHANGED <<db, used, now, restored, pending, shareVars, inflight, revoked>>

refresh(cookie, rotate) ==
  LET r == refreshTokenResult(sessions, sessionIds, cookie, rotate, now)
  IN /\ rotate => IdsLeft > 0
     /\ sessions' = r.sessions
     /\ sessionIds' = r.sessionIds
     /\ response' = r.response
     /\ UNCHANGED <<db, used, now, restored, pending, shareVars, inflight, revoked>>

refreshToken == \E cookie \in Cookies : \E rotate \in BOOLEAN :
  refresh(cookie, rotate)

logoutOne(cookie) ==
  /\ sessions' = logoutResult(sessions, cookie)
  /\ revoked' = revoked \cup ({cookie} \ {NoCookie})
  /\ response' = Answer("logout", cookie, 200, FALSE, NoUser, NoCookie)
  /\ UNCHANGED <<db, used, now, restored, pending, shareVars, sessionIds, inflight>>

logout == \E cookie \in Cookies : logoutOne(cookie)

revokeAllOne(userId) ==
  /\ sessions' = revokeAllUserTokens(sessions, userId)
  /\ revoked' = revoked \cup
                  {m \in DOMAIN sessions : sessions[m].userId = userId}
  /\ response' = Answer("revokeAll", NoCookie, 200, FALSE, userId, NoCookie)
  /\ UNCHANGED <<db, used, now, restored, pending, shareVars, sessionIds, inflight>>

revokeAll ==
  \E userId \in {sessions[m].userId : m \in DOMAIN sessions} :
    revokeAllOne(userId)

cleanupTokens ==
  /\ sessions' = cleanupExpiredTokens(sessions, now)
  /\ UNCHANGED <<db, used, now, restored, pending, shareVars, sessionIds, response,
                 inflight, revoked>>

(* refreshToken with rotation, query by query: the handler validates the    *)
(* session and sets the token cookie, then rotateSession deletes the old    *)
(* row and, in a second query, inserts the new one.                         *)
refreshNoRotate == \E cookie \in Cookies : refresh(cookie, FALSE)

\* request tells the requests in flight apart
rotateValidateWithin(maxInflight) ==
  \E cookie \in Cookies \ {NoCookie} : \E request \in 1..maxInflight :
    /\ validateSessionId(sessions, cookie, now) # {}
    /\ IdsLeft > 0
    /\ \A r \in inflight : r.request # request
    /\ \A other \in 1..(request - 1) : \E r \in inflight : r.request = other
    /\ inflight' = inflight \cup
         {[request |-> request, cookie |-> cookie,
           userId |-> sessions[cookie].userId,
           userRole |-> sessions[cookie].userRole, stage |-> "validated"]}
    /\ response' = Answer("refresh", cookie, 200, TRUE,
                          sessions[cookie].userId, NoCookie)
    /\ UNCHANGED <<db, used, now, restored, pending, shareVars, sessions, sessionIds,
                   revoked>>

rotateValidate == rotateValidateWithin(MaxInflight)

rotateRevoke ==
  \E r \in inflight :
    /\ r.stage = "validated"
    /\ sessions' = revokeSession(sessions, r.cookie)
    /\ inflight' = (inflight \ {r}) \cup {[r EXCEPT !.stage = "revoked"]}
    /\ UNCHANGED <<db, used, now, restored, pending, shareVars, sessionIds, response,
                   revoked>>

rotateStore ==
  \E r \in inflight :
    /\ r.stage = "revoked"
    /\ sessions' = storeRefreshToken(sessions, generateSessionId(sessionIds),
                                     r.userId, r.userRole, now)
    /\ sessionIds' = generateSessionId(sessionIds)
    /\ inflight' = inflight \ {r}
    /\ response' = Answer("rotate", r.cookie, 200, TRUE, r.userId,
                          generateSessionId(sessionIds))
    /\ UNCHANGED <<db, used, now, restored, pending, shareVars, revoked>>

\* a query of rotateSession throws: the handler answers 500
rotateAbort ==
  \E r \in inflight :
    /\ inflight' = inflight \ {r}
    /\ response' = Answer("rotate", r.cookie, 500, TRUE, r.userId, NoCookie)
    /\ UNCHANGED <<db, used, now, restored, pending, shareVars, sessions, sessionIds,
                   revoked>>

\* time, and the requests that make and disable the principals
Accounts ==
  \/ Tick
  \/ createPhotographer
  \/ createClient
  \/ adminDelete("Photographer")
  \/ adminDelete("Client")

AuthRequests ==
  \/ login
  \/ logout
  \/ revokeAll
  \/ cleanupTokens

NextAuth ==
  \/ Accounts
  \/ AuthRequests
  \/ refreshToken

SpecAuth == Init /\ [][NextAuth]_vars

NextAuthInterleaved ==
  \/ Accounts
  \/ AuthRequests
  \/ refreshNoRotate
  \/ rotateValidate
  \/ rotateRevoke
  \/ rotateStore
  \/ rotateAbort

SpecAuthInterleaved == Init /\ [][NextAuthInterleaved]_vars

(* ---- sharing and the read paths ------------------------------------------ *)
(* collectionAccess holds, for each pair <<collection, client>>, the number *)
(* of CollectionAccess edges from the collection to the client.  A          *)
(* PhotoAccess edge row keeps its two ends as record ids: createGuest       *)
(* creates it FROM the photo TO the guest.                                  *)

\* SELECT FROM CollectionAccess WHERE out IN (collection) AND in IN (client)
AlreadyShared(A, c, cl) == <<c, cl>> \in DOMAIN A

\* the collection is the photographer's, isActive and not scheduled; the
\* client is the photographer's and isActive
CanShare(d, ph, c, cl) ==
  /\ d.PhotoCollection[c].owner = d.Photographer[ph].id
  /\ d.PhotoCollection[c].isActive
  /\ ~Scheduled(d.PhotoCollection[c])
  /\ d.Client[cl].owner = d.Photographer[ph].id
  /\ d.Client[cl].isActive

shareCollectionResult(d, A, ph, c, cl) ==
  IF CanShare(d, ph, c, cl) /\ ~AlreadyShared(A, c, cl)
  THEN CreateEdges(A, {<<c, cl>>})
  ELSE A

shareCollection ==
  \E ph \in LoggedIn("Photographer") : \E c \in Rows("PhotoCollection") :
    \E cl \in Rows("Client") :
      /\ collectionAccess' = shareCollectionResult(db, collectionAccess,
                                                   ph, c, cl)
      /\ UNCHANGED <<db, used, now, restored, pending, authVars, photoAccess,
                     sharing, served>>

\* the collection is the photographer's and isActive
CanAdd(d, ph, c) ==
  /\ d.PhotoCollection[c].owner = d.Photographer[ph].id
  /\ d.PhotoCollection[c].isActive

\* for each photo id of the request: SELECT FROM CollectionPhoto WHERE
\* out = collection AND in = photo, and CREATE EDGE if there is none
addPhotosToCollectionResult(d, ph, c, photoIds) ==
  IF CanAdd(d, ph, c)
  THEN [d EXCEPT !.CollectionPhoto =
          CreateEdges(@, {<<c, p>> : p \in photoIds} \ DOMAIN @)]
  ELSE d

addPhotosToCollection ==
  \E ph \in LoggedIn("Photographer") : \E c \in Rows("PhotoCollection") :
    \E photoIds \in SUBSET Rows("Photo") :
      /\ photoIds # {}
      /\ Commit(addPhotosToCollectionResult(db, ph, c, photoIds), {})
      /\ UNCHANGED <<used, now, pending, authVars, shareVars>>

(* the two requests query by query: the check, then the CREATE EDGE *)
shareCheck ==
  \E ph \in LoggedIn("Photographer") : \E c \in Rows("PhotoCollection") :
    \E cl \in Rows("Client") :
      /\ CanShare(db, ph, c, cl)
      /\ ~AlreadyShared(collectionAccess, c, cl)
      /\ Cardinality(sharing) < MaxSharing
      /\ \E n \in 1..MaxSharing :
           /\ \A r \in sharing : r.request # n
           /\ sharing' = sharing \cup
                {[request |-> n, edge |-> "CollectionAccess",
                  pair |-> <<c, cl>>, photoIds |-> {}, todo |-> {},
                  expiresAt |-> Null, stage |-> "checked"]}
      /\ UNCHANGED <<db, used, now, restored, pending, authVars,
                     collectionAccess, photoAccess, served>>

shareCreate ==
  \E r \in sharing :
    /\ r.edge = "CollectionAccess"
    /\ collectionAccess' = CreateEdges(collectionAccess, {r.pair})
    /\ sharing' = sharing \ {r}
    /\ UNCHANGED <<db, used, now, restored, pending, authVars, photoAccess,
                   served>>

addCheck ==
  \E ph \in LoggedIn("Photographer") : \E c \in Rows("PhotoCollection") :
    \E p \in Rows("Photo") :
      /\ CanAdd(db, ph, c)
      /\ <<c, p>> \notin DOMAIN db.CollectionPhoto
      /\ Cardinality(sharing) < MaxSharing
      /\ \E n \in 1..MaxSharing :
           /\ \A r \in sharing : r.request # n
           /\ sharing' = sharing \cup
                {[request |-> n, edge |-> "CollectionPhoto",
                  pair |-> <<c, p>>, photoIds |-> {}, todo |-> {},
                  expiresAt |-> Null, stage |-> "checked"]}
      /\ UNCHANGED <<db, used, now, restored, pending, authVars,
                     collectionAccess, photoAccess, served>>

addCreate ==
  \E r \in sharing :
    /\ r.edge = "CollectionPhoto"
    /\ Commit([db EXCEPT !.CollectionPhoto = CreateEdges(@, {r.pair})], {})
    /\ sharing' = sharing \ {r}
    /\ UNCHANGED <<used, now, pending, authVars, collectionAccess,
                   photoAccess, served>>

(* -- what each read path returns: the photos whose data goes to the caller -- *)
\* the photos in a collection that has a CollectionAccess edge to the client
SharedWith(d, A, cl) ==
  {p \in DOMAIN d.Photo :
     \E c \in DOMAIN d.PhotoCollection :
        <<c, p>> \in DOMAIN d.CollectionPhoto /\ <<c, cl>> \in DOMAIN A}

\* GET /clients/photos/:shareToken
viewPhoto(d, A, cl, p) ==
  {q \in {p} : d.Photo[q].isActive /\ q \in SharedWith(d, A, cl)}

\* GET /clients/photos/:shareToken/download
downloadPhoto(d, A, cl, p) == {q \in {p} : d.Photo[q].isActive}

\* POST /clients/photos/download-zip
downloadZip(d, A, cl, tokens) == {q \in tokens : d.Photo[q].isActive}

\* ClientService.getCollectionPhotos
clientCollectionPhotos(d, A, cl, c) ==
  IF <<c, cl>> \notin DOMAIN A THEN {}
  ELSE {p \in DOMAIN d.Photo :
          <<c, p>> \in DOMAIN d.CollectionPhoto /\ d.Photo[p].isActive}

\* PhotoCollectionService.getClientCollectionPhotos
getClientCollectionPhotos(d, A, cl, c) ==
  IF ~(d.PhotoCollection[c].isActive /\ ~Scheduled(d.PhotoCollection[c]))
  THEN {}
  ELSE IF <<c, cl>> \notin DOMAIN A THEN {}
  ELSE {p \in DOMAIN d.Photo :
          <<c, p>> \in DOMAIN d.CollectionPhoto /\ ~Scheduled(d.Photo[p])}

\* PhotoCollectionService.getClientCollections: the collections listed
getClientCollections(d, A, cl) ==
  {c \in DOMAIN d.PhotoCollection :
     /\ <<c, cl>> \in DOMAIN A
     /\ d.PhotoCollection[c].isActive
     /\ ~Scheduled(d.PhotoCollection[c])}

\* the ids a guest's token carries: req.user.guestId || req.user.userId
GuestIds(g) == {Uuid("Guest", g), Rid("Guest", g)}

\* variant: the edges are found from their guest end, whatever their state
guestDownloadByGuestEnd(d, PA, guestId, tokens) ==
  {p \in tokens :
     /\ d.Photo[p].isActive
     /\ \E e \in PA : e.in = guestId /\ e.out = Rid("Photo", p)}

\* GET /guests/photos/:shareToken/download and POST /guests/photos/
\* download-zip: Photo WHERE shareToken IN :tokens AND isActive = true AND
\* @rid IN (SELECT in FROM PhotoAccess WHERE out = :guestId)
guestDownload(d, PA, guestId, tokens) ==
  {p \in tokens :
     /\ d.Photo[p].isActive
     /\ \E e \in PA : e.out = guestId /\ e.in = Rid("Photo", p)}

\* the reply of a read request made with key
ServeKey(path, key, photos) ==
  /\ served' = [path |-> path, key |-> key,
                status |-> IF photos = {} THEN 404 ELSE 200,
                photos |-> photos, mail |-> "none"]
  /\ UNCHANGED <<db, used, now, restored, pending, authVars, collectionAccess,
                 photoAccess, sharing>>

Serve(path, photos) == ServeKey(path, NoLink, photos)

\* the shareToken of a photo: 32 random bytes in hex, which is neither the
\* photoId nor the record id of any photo
ShareToken(p) == <<"token", "Photo", p>>

\* what a caller may put in the place of :shareToken
PublicKeys ==
  UNION {{ShareToken(p), Uuid("Photo", p), Rid("Photo", p)} :
           p \in 1..MaxPhotos}

\* variant: a photo is also found by its photoId or record id
sharePhotoByAnyId(d, key, onDisk) ==
  {p \in DOMAIN d.Photo \cap onDisk :
     /\ key \in {ShareToken(p), Uuid("Photo", p), Rid("Photo", p)}
     /\ d.Photo[p].isActive}

\* PhotoService.sharePhoto: Photo WHERE shareToken = :shareToken AND
\* isActive = true, sent when its file is in the upload directory
sharePhoto(d, key, onDisk) ==
  {p \in DOMAIN d.Photo \cap onDisk :
     ShareToken(p) = key /\ d.Photo[p].isActive}

\* GET /photos/share/:shareToken, without authentication
publicSharePhoto ==
  \E key \in PublicKeys : \E onDisk \in SUBSET Rows("Photo") :
    ServeKey("sharePhoto", key, sharePhoto(db, key, onDisk))

clientViewPhoto ==
  \E cl \in LoggedIn("Client") : \E p \in Rows("Photo") :
    Serve("viewPhoto", viewPhoto(db, collectionAccess, cl, p))

clientDownloadPhoto ==
  \E cl \in LoggedIn("Client") : \E p \in Rows("Photo") :
    Serve("downloadPhoto", downloadPhoto(db, collectionAccess, cl, p))

clientDownloadZip ==
  \E cl \in LoggedIn("Client") : \E tokens \in SUBSET Rows("Photo") :
    /\ tokens # {}
    /\ Serve("downloadZip", downloadZip(db, collectionAccess, cl, tokens))

clientGetCollectionPhotos ==
  \E cl \in LoggedIn("Client") : \E c \in Rows("PhotoCollection") :
    Serve("clientCollectionPhotos",
          clientCollectionPhotos(db, collectionAccess, cl, c))

clientCollectionPhotosListing ==
  \E cl \in LoggedIn("Client") : \E c \in Rows("PhotoCollection") :
    Serve("getClientCollectionPhotos",
          getClientCollectionPhotos(db, collectionAccess, cl, c))

guestDownloadPhoto ==
  \E g \in LoggedIn("Guest") : \E guestId \in GuestIds(g) :
    \E tokens \in SUBSET Rows("Photo") :
      /\ tokens # {}
      /\ Serve("guestDownload", guestDownload(db, photoAccess, guestId, tokens))

Reads ==
  \/ clientViewPhoto
  \/ clientDownloadPhoto
  \/ clientDownloadZip
  \/ clientGetCollectionPhotos
  \/ clientCollectionPhotosListing
  \/ guestDownloadPhoto
  \/ publicSharePhoto

\* the requests that make and remove what is shared
Gallery ==
  \/ Tick
  \/ createPhotographer
  \/ createClient
  \/ createGuest
  \/ createCollection
  \/ uploadPhoto
  \/ deleteCollection
  \/ restore("Photo")
  \/ restoreCollection

NextShare ==
  \/ Gallery
  \/ shareCollection
  \/ addPhotosToCollection
  \/ Reads

SpecShare == Init /\ [][NextShare]_vars

NextShareInterleaved ==
  \/ Gallery
  \/ shareCheck
  \/ shareCreate
  \/ addCheck
  \/ addCreate

SpecShareInterleaved == Init /\ [][NextShareInterleaved]_vars

(* ---- guest shares ------------------------------------------------------ *)
\* the guest shares of a client with more guests and photos than the
\* lifecycle needs
shareGuestPhotos == createGuestWithin(MaxShareGuests)

GuestGallery ==
  \/ Tick
  \/ createPhotographer
  \/ createClient
  \/ createCollection
  \/ uploadPhotoWithin(MaxSharePhotos, GracePeriod)

NextGuest ==
  \/ GuestGallery
  \/ shareGuestPhotos

SpecGuest == Init /\ [][NextGuest]_vars

(* createGuest query by query: the photo query, the lookup and the INSERT  *)
(* of the guest; the DELETE EDGE; one CREATE EDGE for each photo; then the *)
(* queries and the mail that come before the reply                         *)
guestBegin ==
  \E c \in LoggedIn("Client") : \E photoIds \in SUBSET Rows("Photo") :
    LET g == used["Guest"] + 1
        existing == ExistingGuest(db, c,
                      encryptSimple(GuestEmail, randomBytes(2 * g - 1)))
        guest == IF existing # {} THEN CHOOSE m \in existing : TRUE ELSE g
    IN /\ now + Days(ExpirationDays) < MaxTime
       /\ photoIds # {}
       /\ \A p \in photoIds : db.Photo[p].isActive
       /\ existing # {} \/ used["Guest"] < MaxShareGuests
       /\ Cardinality(sharing) < MaxSharing
       /\ Commit(createGuestResult(db, c, g, existing, now), {})
       /\ used' = IF existing # {} THEN used
                  ELSE [used EXCEPT !["Guest"] = g]
       /\ \E n \in 1..MaxSharing :
            /\ \A r \in sharing : r.request # n
            /\ sharing' = sharing \cup
                 {[request |-> n, edge |-> "PhotoAccess",
                   pair |-> <<c, guest>>, photoIds |-> photoIds,
                   todo |-> photoIds,
                   expiresAt |-> toOrientDBDateTime(now + Days(ExpirationDays)),
                   stage |-> "inserted"]}
       /\ UNCHANGED <<now, pending, authVars, collectionAccess, photoAccess,
                      served>>

guestRevoke ==
  \E r \in sharing :
    /\ r.edge = "PhotoAccess"
    /\ r.stage = "inserted"
    /\ photoAccess' = {e \in photoAccess : e.in # Rid("Guest", r.pair[2])}
    /\ sharing' = (sharing \ {r}) \cup {[r EXCEPT !.stage = "revoked"]}
    /\ UNCHANGED <<db, used, now, restored, pending, authVars,
                   collectionAccess, served>>

guestGrant ==
  \E r \in sharing : \E p \in r.todo :
    /\ r.edge = "PhotoAccess"
    /\ r.stage = "revoked"
    /\ photoAccess' = photoAccess \cup
         {[out |-> Rid("Photo", p), in |-> Rid("Guest", r.pair[2]),
           photoId |-> NoLink, userId |-> NoLink,
           expiresAt |-> r.expiresAt, isActive |-> TRUE]}
    /\ sharing' = (sharing \ {r}) \cup
         {[r EXCEPT !.todo = @ \ {p},
                    !.stage = IF r.todo = {p} THEN "granted" ELSE @]}
    /\ UNCHANGED <<db, used, now, restored, pending, authVars,
                   collectionAccess, served>>

guestReply ==
  \E r \in sharing :
    /\ r.edge = "PhotoAccess"
    /\ r.stage = "granted"
    /\ sharing' = sharing \ {r}
    /\ UNCHANGED <<db, used, now, restored, pending, authVars,
                   collectionAccess, photoAccess, served>>

NextGuestInterleaved ==
  \/ GuestGallery
  \/ guestBegin
  \/ guestRevoke
  \/ guestGrant
  \/ guestReply

SpecGuestInterleaved == Init /\ [][NextGuestInterleaved]_vars

(* ---- uploads ------------------------------------------------------------ *)
\* several uploads into a collection, up to the horizon
uploadPhotos == uploadPhotoWithin(MaxSharePhotos, 0)

NextUpload ==
  \/ Tick
  \/ createPhotographer
  \/ createCollection
  \/ uploadPhotos
  \/ deleteCollection
  \/ restoreCollection

SpecUpload == Init /\ [][NextUpload]_vars

(* ---- overlapping sweeps --------------------------------------------------- *)
(* cleanupScheduledDeletions query by query.  A pass keeps, in pending, the  *)
(* time it read when it began, the section it is in (the index into         *)
(* SweepSections; one more when it is through), the rows its SELECT gave   *)
(* and that its loop has not reached yet, the photographer and the client   *)
(* it is at.  A SELECT whose result only feeds the summary is not a step.   *)
(* base is the store when the first of the overlapping passes began, and    *)
(* latest the time the last of them read.                                   *)
SweepSections == <<"Photographer", "Client", "Guest", "Photo",
                   "PhotoCollection">>

SweepDone == Len(SweepSections) + 1

NewSweep(pass, base, t) ==
  [pass |-> pass, at |-> t, section |-> 1, selected |-> FALSE, todo |-> {},
   cur |-> 0, sub |-> "none", clients |-> {}, client |-> 0,
   base |-> base, latest |-> t]

\* the loop of the section goes on, or the section is over
Continue(r) ==
  IF r.todo = {}
  THEN [r EXCEPT !.section = @ + 1, !.selected = FALSE]
  ELSE r

\* DELETE VERTEX Guest WHERE clientId = :clientId
\* variant: the guests of the client stay
DeleteGuestsOfNone(d, y) == d

DeleteGuestsOf(d, y) ==
  DeleteVertex(d, "Guest", OwnedByRid(d, "Guest", "Client", {y}))

\* one query of pass r: the store becomes d, the pass r2
SweepQuery(r, d, r2) ==
  /\ Commit(d, {})
  /\ collectionAccess' = LiveAccess(d, collectionAccess)
  /\ photoAccess' = LiveRows(d, photoAccess)
  /\ pending' = (pending \ {r}) \cup {r2}
  /\ UNCHANGED <<used, now, authVars, sharing, served>>

sweepBegin ==
  \E pass \in 1..MaxSweeps :
    /\ \A r \in pending : r.pass # pass
    /\ \A other \in 1..(pass - 1) : \E r \in pending : r.pass = other
    /\ pending' = {[r EXCEPT !.latest = now] : r \in pending}
                    \cup {NewSweep(pass,
                                   IF pending = {} THEN db
                                   ELSE (CHOOSE r \in pending : TRUE).base,
                                   now)}
    /\ UNCHANGED <<db, used, now, restored, authVars, shareVars>>

\* the SELECT of the due rows of a section
sweepSelect ==
  \E r \in pending :
    /\ r.section < SweepDone
    /\ ~r.selected
    /\ SweepQuery(r, db,
         Continue([r EXCEPT !.selected = TRUE,
                            !.todo = Due(db, SweepSections[r.section], r.at)]))

\* SELECT @rid FROM Client WHERE photographerId = :photogId
sweepPhotographerClients ==
  \E r \in pending : \E x \in r.todo :
    /\ r.section = 1 /\ r.selected /\ r.cur = 0
    /\ LET clients == OwnedByRid(db, "Client", "Photographer", {x})
       IN SweepQuery(r, db,
            [r EXCEPT !.cur = x, !.clients = clients,
                      !.sub = IF clients = {} THEN "photos" ELSE "clients"])

\* the clients the loop of pass r is over: those of the photographer it is
\* at, or the due ones
LoopClients(r) ==
  IF r.section = 1 /\ r.sub = "clients" THEN r.clients
  ELSE IF r.section = 2 /\ r.selected THEN r.todo
  ELSE {}

sweepClientGuests ==
  \E r \in pending : \E y \in LoopClients(r) :
    /\ r.client = 0
    /\ SweepQuery(r, DeleteGuestsOf(db, y), [r EXCEPT !.client = y])

\* DELETE VERTEX Client WHERE @rid = :clientId
sweepClientSelf ==
  \E r \in pending :
    /\ r.client # 0
    /\ SweepQuery(r, DeleteVertex(db, "Client", {r.client}),
         IF r.section = 1
         THEN [r EXCEPT !.client = 0, !.clients = @ \ {r.client},
                        !.sub = IF r.clients \ {r.client} = {}
                                THEN "photos" ELSE "clients"]
         ELSE Continue([r EXCEPT !.client = 0, !.todo = @ \ {r.client}]))

\* DELETE VERTEX Photo WHERE photographerId = :photogId
sweepPhotographerPhotos ==
  \E r \in pending :
    /\ r.section = 1 /\ r.sub = "photos"
    /\ SweepQuery(r,
         DeleteVertex(db, "Photo",
                      OwnedByRid(db, "Photo", "Photographer", {r.cur})),
         [r EXCEPT !.sub = "collections"])

\* DELETE VERTEX PhotoCollection WHERE photographerId = :photogId
sweepPhotographerCollections ==
  \E r \in pending :
    /\ r.section = 1 /\ r.sub = "collections"
    /\ SweepQuery(r,
         DeleteVertex(db, "PhotoCollection",
                      OwnedByRid(db, "PhotoCollection", "Photographer",
                                 {r.cur})),
         [r EXCEPT !.sub = "self"])

\* DELETE VERTEX Photographer WHERE @rid = :photogId
sweepPhotographerSelf ==
  \E r \in pending :
    /\ r.section = 1 /\ r.sub = "self"
    /\ SweepQuery(r, DeleteVertex(db, "Photographer", {r.cur}),
         Continue([r EXCEPT !.cur = 0, !.sub = "none",
                            !.todo = @ \ {r.cur}]))

\* DELETE VERTEX ... WHERE @rid = :id, in the loops over the due guests,
\* photos and collections; a row the other pass has deleted matches nothing
sweepDeleteOne ==
  \E r \in pending : \E x \in r.todo :
    /\ r.section \in 3..Len(SweepSections) /\ r.selected
    /\ SweepQuery(r, DeleteVertex(db, SweepSections[r.section], {x}),
         Continue([r EXCEPT !.todo = @ \ {x}]))

\* the pass returns its summary
sweepEnd ==
  \E r \in pending :
    /\ r.section = SweepDone
    /\ pending' = pending \ {r}
    /\ UNCHANGED <<db, used, now, restored, authVars, shareVars>>

\* the requests that fill the store run while no pass does
Quiet == pending = {}

sweepRequests ==
  /\ Quiet
  /\ \/ createPhotographer
     \/ createClient
     \/ createGuest
     \/ createCollection
     \/ uploadPhoto
     \/ adminDelete("Photographer")
     \/ adminDelete("Client")
     \/ adminDelete("Guest")
     \/ adminDelete("Photo")
     \/ adminDeleteCollection

NextSweeps ==
  \/ Tick
  \/ sweepRequests
  \/ sweepBegin
  \/ sweepSelect
  \/ sweepPhotographerClients
  \/ sweepClientGuests
  \/ sweepClientSelf
  \/ sweepPhotographerPhotos
  \/ sweepPhotographerCollections
  \/ sweepPhotographerSelf
  \/ sweepDeleteOne
  \/ sweepEnd

SpecSweeps == Init /\ [][NextSweeps]_vars

(* ---- a sweep pass among errors and restores --------------------------------- *)
\* a query of the pass rejects inside one of its loops: no try / catch is
\* around the loops, the pass ends there and the caller logs the error
sweepThrow ==
  \E r \in pending :
    /\ r.section < SweepDone
    /\ r.selected
    /\ pending' = pending \ {r}
    /\ UNCHANGED <<db, used, now, restored, authVars, shareVars>>

\* one pass at a time
sweepBeginAlone == Quiet /\ sweepBegin

\* restore requests arrive whether a pass runs or not
NextSweepRaces ==
  \/ Tick
  \/ sweepRequests
  \/ restore("Client")
  \/ restore("Photo")
  \/ restoreCollection
  \/ sweepBeginAlone
  \/ sweepSelect
  \/ sweepPhotographerClients
  \/ sweepClientGuests
  \/ sweepClientSelf
  \/ sweepPhotographerPhotos
  \/ sweepPhotographerCollections
  \/ sweepPhotographerSelf
  \/ sweepDeleteOne
  \/ sweepEnd
  \/ sweepThrow

SpecSweepRaces == Init /\ [][NextSweepRaces]_vars

(* ---- restore requests and their answer ------------------------------------ *)
\* the ids a restore request can name: those handed out, whose vertex may
\* have been purged since, and those that were never handed out
EntityIds(cls) == {Uuid(cls, n) : n \in Slots(cls)}

\* the scheduled photos of the collection, which the route restores first
ScheduledPhotosIn(d, collectionId) ==
  {p \in PhotosInCollection(d, collectionId) : Scheduled(d.Photo[p])}

postRestoreResult(d, cls, entityId) ==
  IF cls = "PhotoCollection"
  THEN restoreDeleted(RestoreRows(d, "Photo", ScheduledPhotosIn(d, entityId)),
                      cls, entityId)
  ELSE restoreDeleted(d, cls, entityId)

\* restoreDeleted returns {id, restored: true} whatever its UPDATE matched,
\* and the route answers success: true unless a query threw
postRestoreStatus(d, cls, entityId) == 200

\* POST /admin/restore
postRestore ==
  \E cls \in Classes : \E entityId \in EntityIds(cls) :
    /\ Commit(postRestoreResult(db, cls, entityId),
              {<<cls, m>> : m \in {x \in ByUuid(db, cls, entityId) :
                                     Scheduled(db[cls][x])}}
                \cup (IF cls = "PhotoCollection"
                      THEN {<<"Photo", p>> :
                              p \in ScheduledPhotosIn(db, entityId)}
                      ELSE {}))
    /\ served' = [path |-> "restore", key |-> entityId,
                  status |-> postRestoreStatus(db, cls, entityId),
                  photos |-> {}, mail |-> "none"]
    /\ UNCHANGED <<used, now, pending, authVars, collectionAccess,
                   photoAccess, sharing>>

NextRestore ==
  \/ Tick
  \/ createPhotographer
  \/ createClient
  \/ createCollection
  \/ uploadPhoto
  \/ adminDelete("Photographer")
  \/ adminDelete("Client")
  \/ adminDelete("Photo")
  \/ adminDeleteCollection
  \/ cleanupScheduledDeletions
  \/ postRestore

SpecRestore == Init /\ [][NextRestore]_vars

(* ---- notifications --------------------------------------------------------- *)
(* The handlers that send an email after their write, with their answer.    *)
(* smtp is whether the transporter delivers; a send either is "sent",       *)
(* returns {success: false} ("failed") or throws ("throws").                *)
MailFailed == {"failed", "throws"}

\* EmailService.sendPhotographerCredentials rethrows what sendEmail rejects
sendPhotographerCredentials(smtp) == IF smtp THEN "sent" ELSE "throws"

\* the other senders catch it and return {success: false}
sendClientCredentials(smtp) == IF smtp THEN "sent" ELSE "failed"

sendGuestCredentials(smtp) == IF smtp THEN "sent" ELSE "failed"

sendCollectionSharedNotification(smtp) == IF smtp THEN "sent" ELSE "failed"

\* variant: the send is not wrapped, and what it throws reaches the outer
\* catch of the handler
createPhotographerUncaughtStatus(mail) == IF mail = "throws" THEN 500 ELSE 201

\* the send is in a try / catch of its own, and 201 follows
createPhotographerStatus(mail) == 201

\* the send is not wrapped: only a throw would reach the outer catch
createClientStatus(mail) == IF mail = "throws" THEN 500 ELSE 201

createGuestStatus(mail) == IF mail = "throws" THEN 500 ELSE 201

\* the send is in a try / catch of its own, and success: true follows
shareCollectionStatus(mail) == 200

Answered(path, key, status, mail) ==
  served' = [path |-> path, key |-> key, status |-> status, photos |-> {},
             mail |-> mail]

createPhotographerNotified ==
  \E smtp \in BOOLEAN :
    LET mail == sendPhotographerCredentials(smtp)
    IN /\ CreateWrites("Photographer", Null, Null)
       /\ Answered("createPhotographer",
                   Rid("Photographer", used["Photographer"] + 1),
                   createPhotographerStatus(mail), mail)

createClientNotified ==
  \E ph \in LoggedIn("Photographer") : \E smtp \in BOOLEAN :
    LET mail == sendClientCredentials(smtp)
    IN /\ CreateWrites("Client", db.Photographer[ph].id, Null)
       /\ Answered("createClient", Rid("Client", used["Client"] + 1),
                   createClientStatus(mail), mail)

\* the credentials go out only for a guest the request has inserted
createGuestNotified ==
  \E c \in LoggedIn("Client") : \E photoIds \in SUBSET Rows("Photo") :
    \E smtp \in BOOLEAN :
      LET g == used["Guest"] + 1
          existing == FoundGuest(db, c, g)
          mail == IF existing # {} THEN "none" ELSE sendGuestCredentials(smtp)
      IN /\ createGuestWrites(MaxGuests, c, photoIds)
         /\ Answered("createGuest",
                     Rid("Guest", IF existing # {}
                                  THEN CHOOSE m \in existing : TRUE ELSE g),
                     createGuestStatus(mail), mail)

\* a share that passes the checks: the CREATE EDGE, then the notification
shareCollectionNotified ==
  \E ph \in LoggedIn("Photographer") : \E c \in Rows("PhotoCollection") :
    \E cl \in Rows("Client") : \E smtp \in BOOLEAN :
      LET mail == sendCollectionSharedNotification(smtp)
      IN /\ CanShare(db, ph, c, cl)
         /\ ~AlreadyShared(collectionAccess, c, cl)
         /\ collectionAccess' = shareCollectionResult(db, collectionAccess,
                                                      ph, c, cl)
         /\ Answered("shareCollection", <<"CollectionAccess", c, cl>>,
                     shareCollectionStatus(mail), mail)
         /\ UNCHANGED <<db, used, now, restored, pending, authVars,
                        photoAccess, sharing>>

NextNotify ==
  \/ Tick
  \/ createPhotographerNotified
  \/ createClientNotified
  \/ createCollection
  \/ uploadPhoto
  \/ createGuestNotified
  \/ shareCollectionNotified
  \/ adminDelete("Photographer")
  \/ adminDelete("Client")

SpecNotify == Init /\ [][NextNotify]_vars

(* ---- grant records --------------------------------------------------------- *)
\* INSERT INTO PhotoAccess SET photoId, userId, ...: a row with no in and no
\* out, one for each photo of the request
PhotoAccessRows(cl, photoIds) ==
  {[out |-> NoLink, in |-> NoLink,
    photoId |-> Rid("Photo", p), userId |-> Rid("Client", cl),
    expiresAt |-> Null, isActive |-> TRUE] : p \in photoIds}

\* the rows after the request.  accepted: the store takes an INSERT INTO
\* PhotoAccess, which depends on whether the schema in use has PhotoAccess
\* as a vertex or as an edge class; when it does not, the first INSERT
\* throws and the request ends in its outer catch.  A row that is there
\* already takes the UPDATE of the duplicate branch and stays as it is.
sharePhotosWithClientResult(PA, cl, photoIds, accepted) ==
  IF accepted THEN PA \cup PhotoAccessRows(cl, photoIds) ELSE PA

\* POST /photographer/share-photos: the client is the photographer's, every
\* photo is the photographer's and isActive
sharePhotosWithClient ==
  \E ph \in LoggedIn("Photographer") : \E cl \in Rows("Client") :
    \E photoIds \in SUBSET Rows("Photo") : \E accepted \in BOOLEAN :
      /\ db.Client[cl].owner = db.Photographer[ph].id
      /\ \A p \in photoIds : /\ db.Photo[p].owner = db.Photographer[ph].id
                            /\ db.Photo[p].isActive
      /\ photoAccess' = sharePhotosWithClientResult(photoAccess, cl, photoIds,
                                                    accepted)
      /\ UNCHANGED <<db, used, now, restored, pending, authVars,
                     collectionAccess, sharing, served>>

NextGrants ==
  \/ Tick
  \/ createPhotographer
  \/ createClient
  \/ createGuest
  \/ createCollection
  \/ uploadPhoto
  \/ shareCollection
  \/ sharePhotosWithClient
  \/ adminDelete("Client")
  \/ adminDelete("Guest")
  \/ adminDelete("Photo")
  \/ adminDeleteCollection
  \/ cleanupScheduledDeletions

SpecGrants == Init /\ [][NextGrants]_vars

(* ---- login and lastLogin --------------------------------------------------- *)
(* login query by query: authenticateUser finds the principal and verifies  *)
(* it, writes lastLogin, and login then stores the session.  A login        *)
(* between its queries is in inflight.                                      *)
\* the principal is found, isActive is not false and the password matches
Verified(d, cls, m, passwordOk) == d[cls][m].isActive /\ passwordOk

\* the SELECTs and comparePassword; a failure throws, and login answers 401
loginVerify ==
  \E cls \in LoginClasses : \E m \in Rows(cls) : \E passwordOk \in BOOLEAN :
    /\ inflight = {}
    /\ IdsLeft > 0
    /\ IF Verified(db, cls, m, passwordOk)
       THEN /\ inflight' = {[userId |-> Rid(cls, m), userClass |-> cls,
                             slot |-> m, stage |-> "verified"]}
            /\ UNCHANGED response
       ELSE /\ response' = Answer("login", NoCookie, 401, FALSE, Rid(cls, m),
                                  NoCookie)
            /\ UNCHANGED inflight
    /\ UNCHANGED <<db, used, now, restored, pending, shareVars, sessions,
                   sessionIds, revoked>>

\* UPDATE <class> SET lastLogin = :lastLogin WHERE @rid = :rid
StampLastLogin(d, cls, m, t) ==
  IF m \in DOMAIN d[cls]
  THEN UpdateWhere(d, cls,
         [x \in {m} |-> [d[cls][m] EXCEPT !.lastLogin = toOrientDBDateTime(t)]])
  ELSE d

loginStamp ==
  \E r \in inflight :
    /\ r.stage = "verified"
    /\ Commit(StampLastLogin(db, r.userClass, r.slot, now), {})
    /\ inflight' = {[r EXCEPT !.stage = "stamped"]}
    /\ UNCHANGED <<used, now, pending, shareVars, sessions, sessionIds,
                   response, revoked>>

\* the UPDATE rejects: authenticateUser rethrows, and login answers 401
loginStampThrows ==
  \E r \in inflight :
    /\ r.stage = "verified"
    /\ inflight' = {}
    /\ response' = Answer("login", NoCookie, 401, FALSE, r.userId, NoCookie)
    /\ UNCHANGED <<db, used, now, restored, pending, shareVars, sessions,
                   sessionIds, revoked>>

\* storeRefreshToken, the cookies and the answer
loginIssue ==
  \E r \in inflight :
    /\ r.stage = "stamped"
    /\ inflight' = {}
    /\ sessions' = storeRefreshToken(sessions, generateSessionId(sessionIds),
                                     r.userId, userRole(r.userClass), now)
    /\ sessionIds' = generateSessionId(sessionIds)
    /\ response' = Answer("login", NoCookie, 200, TRUE, r.userId,
                          generateSessionId(sessionIds))
    /\ UNCHANGED <<db, used, now, restored, pending, shareVars, revoked>>

NextLogin ==
  \/ Accounts
  \/ loginVerify
  \/ loginStamp
  \/ loginStampThrows
  \/ loginIssue

SpecLogin == Init /\ [][NextLogin]_vars

(* ---- concurrent rotations -------------------------------------------------- *)
\* one login, so that every session row descends from it
loginOnce == sessionIds = 0 /\ login

\* refresh requests with rotation, several of them in flight
raceValidate == rotateValidateWithin(MaxRotations)

NextRotationRace ==
  \/ Tick
  \/ createPhotographer
  \/ createClient
  \/ loginOnce
  \/ raceValidate
  \/ rotateRevoke
  \/ rotateStore
  \/ rotateAbort

SpecRotationRace == Init /\ [][NextRotationRace]_vars

(* ---- status toggles -------------------------------------------------------- *)
\* UPDATE <class> SET isActive = :isActive WHERE @rid = :rid, with the
\* negation of the isActive the handler has just read
ToggleStatus(d, cls, m) ==
  UpdateWhere(d, cls, [x \in {m} |-> [d[cls][m] EXCEPT !.isActive = ~@]])

\* PUT /admin/photographer/:photographerId/toggle
togglePhotographerStatus ==
  \E ph \in Rows("Photographer") :
    /\ Commit(ToggleStatus(db, "Photographer", ph), {})
    /\ UNCHANGED <<used, now, pending, authVars, shareVars>>

\* PATCH /client/guests/:guestId/toggle-access, by the client of the guest
toggleGuestAccess ==
  \E c \in LoggedIn("Client") : \E g \in Rows("Guest") :
    /\ db.Guest[g].owner = Rid("Client", c)
    /\ Commit(ToggleStatus(db, "Guest", g), {})
    /\ UNCHANGED <<used, now, pending, authVars, shareVars>>

NextToggle ==
  \/ Tick
  \/ createPhotographer
  \/ createClient
  \/ createCollection
  \/ uploadPhoto
  \/ createGuest
  \/ adminDelete("Photographer")
  \/ adminDelete("Guest")
  \/ restore("Photographer")
  \/ restore("Guest")
  \/ togglePhotographerStatus
  \/ toggleGuestAccess
  \/ cleanupScheduledDeletions

SpecToggle == Init /\ [][NextToggle]_vars

(* ---- the collection cleanup script ------------------------------------------ *)
\* WHERE autoDeleteAt <= sysdate() AND isActive = true AND deletedAt IS NULL
ScriptExpired(d, t) ==
  {c \in DOMAIN d.PhotoCollection :
     /\ d.PhotoCollection[c].timer # Null
     /\ d.PhotoCollection[c].timer <= t
     /\ d.PhotoCollection[c].isActive
     /\ d.PhotoCollection[c].deletedAt = Null}

\* SET deletedAt = sysdate(), isActive = false, deletionReason = '...'
ScriptDeletedRecord(rec, t) ==
  [rec EXCEPT !.deletedAt = t, !.isActive = FALSE,
              !.deletionReason = "Auto-deleted after 14 days"]

scriptCleanupExpiredCollectionsResult(d, t) ==
  UpdateWhere(d, "PhotoCollection",
    [c \in ScriptExpired(d, t) |-> ScriptDeletedRecord(d.PhotoCollection[c], t)])

\* the script, run from cron
scriptCleanupExpiredCollections ==
  /\ Commit(scriptCleanupExpiredCollectionsResult(db, now), {})
  /\ UNCHANGED <<used, now, pending, authVars, shareVars>>

NextScript ==
  \/ Tick
  \/ createPhotographer
  \/ createCollection
  \/ uploadPhoto
  \/ adminDeleteCollection
  \/ deleteCollection
  \/ restoreCollection
  \/ cleanupExpiredCollections
  \/ scriptCleanupExpiredCollections
  \/ cleanupScheduledDeletions

SpecScript == Init /\ [][NextScript]_vars

(* ---- deletion and restore of a disabled guest ------------------------------ *)
\* DELETE /admin/guest/:id of a guest that is disabled and not scheduled
adminDeleteDisabledGuest ==
  \E m \in Rows("Guest"), reason \in AdminReasons :
    /\ ~db.Guest[m].isActive
    /\ ~Scheduled(db.Guest[m])
    /\ adminDeleteOne("Guest", m, reason)

NextRoundTrip ==
  \/ Tick
  \/ createPhotographer
  \/ createClient
  \/ login
  \/ createCollection
  \/ uploadPhoto
  \/ createGuest
  \/ cleanupExpiredGuests
  \/ adminDeleteDisabledGuest
  \/ restore("Guest")

SpecRoundTrip == Init /\ [][NextRoundTrip]_vars

(* ---- vocabulary of the properties ---------------------------------------- *)
Reasons ==
  AdminReasons \cup {"Deleted by photographer", "Deleted with collection",
                     "Collection expired", "Auto-delete timer expired"}

\* the vertices of the store d, as <<class, slot>>
Entities(d) == UNION {{<<cls, m>> : m \in DOMAIN d[cls]} : cls \in Classes}

Rec(d, x) == d[x[1]][x[2]]

\* lifecycle states of a vertex
Active(rec) == rec.isActive /\ ~Scheduled(rec)
PendingDeletion(rec) == ~rec.isActive /\ Scheduled(rec)

\* x is purged by the step
Vanishes(x) == x[2] \in DOMAIN db[x[1]] /\ x[2] \notin DOMAIN db'[x[1]]

\* the vertex whose id (record id or uuid) x stored as its owner at creation
OwnerOf(d, x) ==
  IF x[1] = "Photographer" THEN {}
  ELSE {y \in Entities(d) :
          Rec(d, x).owner \in {Rid(y[1], y[2]), Rec(d, y).id}}

\* a vertex has been purged: a handed-out slot is no longer in the store
SomePurged(cls) == Cardinality(Rows(cls)) < used[cls]

(* ---- C1 ------------------------------------------------------------------ *)
\* C1: for each of the five kinds, markForDeletion(X, reason) on an Active X
\* leaves X with isActive = false, deletedAt = now (as stored),
\* scheduledDeletionDate = deletedAt + 7 days, deletionReason = reason, and
\* changes no other vertex and no edge.
C1_MarkForDeletion ==
  \A x \in Entities(db), reason \in Reasons :
    Active(Rec(db, x)) =>
      LET d2 == markForDeletion(db, x[1], Rec(db, x).id, reason, now)
      IN /\ Rec(d2, x) =
              [Rec(db, x) EXCEPT
                 !.isActive = FALSE,
                 !.deletedAt = toOrientDBDateTime(now),
                 !.scheduledDeletionDate = toOrientDBDateTime(now) + GracePeriod,
                 !.deletionReason = reason]
         /\ d2 = [db EXCEPT ![x[1]][x[2]] = Rec(d2, x)]

\* a vertex marked at the current time stands next to an Active vertex
C1_Witness ==
  \E x, y \in Entities(db) :
    /\ x # y
    /\ PendingDeletion(Rec(db, x))
    /\ Rec(db, x).deletedAt = toOrientDBDateTime(now)
    /\ Rec(db, x).scheduledDeletionDate = Rec(db, x).deletedAt + GracePeriod
    /\ Active(Rec(db, y))
    /\ CanSchedule

(* ---- C2 ------------------------------------------------------------------ *)
\* C2: a vertex is purged only if its own scheduledDeletionDate is non-null
\* and <= now, or it is owned by a Photographer or Client purged in the same
\* pass; the sweep leaves every other vertex unchanged.  A marked
\* Photographer therefore survives every sweep before its date.
C2_SweepPurgesOnlyDue ==
  [][/\ \A x \in Entities(db) :
          Vanishes(x) =>
            \/ /\ Scheduled(Rec(db, x))
               /\ Rec(db, x).scheduledDeletionDate <= now
            \/ \E y \in OwnerOf(db, x) :
                 y[1] \in {"Photographer", "Client"} /\ Vanishes(y)
     /\ (\E x \in Entities(db) : Vanishes(x)) /\ cleanupScheduledDeletions =>
          \A x \in Entities(db) : ~Vanishes(x) => Rec(db', x) = Rec(db, x)
    ]_vars

\* a sweep has purged a Photo while a marked Photographer is not yet due
C2_Witness ==
  /\ SomePurged("Photo")
  /\ \E ph \in Rows("Photographer") :
       /\ PendingDeletion(db.Photographer[ph])
       /\ now < db.Photographer[ph].scheduledDeletionDate
(* ---- C3 ------------------------------------------------------------------ *)
\* x is owned by Photographer ph: its stored photographerId is the id of ph,
\* or it is a Guest of a Client owned by ph
OwnedByPhotographer(d, x, ph) ==
  \/ <<"Photographer", ph>> \in OwnerOf(d, x)
  \/ \E y \in OwnerOf(d, x) : <<"Photographer", ph>> \in OwnerOf(d, y)

\* C3: a sweep at now >= the scheduledDeletionDate of a PendingDeletion
\* Photographer leaves absent the Photographer, every Client it owns, the
\* Guests of those Clients, and every Photo and PhotoCollection it owns,
\* ownership being the owner id stored at creation.
C3_PhotographerCascade ==
  [][\A ph \in Rows("Photographer") :
       /\ PendingDeletion(db.Photographer[ph])
       /\ db.Photographer[ph].scheduledDeletionDate <= now
       /\ cleanupScheduledDeletions
       => /\ ph \notin DOMAIN db'.Photographer
          /\ \A x \in Entities(db) :
               OwnedByPhotographer(db, x, ph) => x[2] \notin DOMAIN db'[x[1]]
    ]_vars

(* ---- C4 ------------------------------------------------------------------ *)
\* C4: after a sweep at now >= the scheduledDeletionDate of a PendingDeletion
\* PhotoCollection c, no CollectionPhoto edge references c and every Photo
\* that was linked to c and to no other collection is purged.
C4_CollectionCascade ==
  [][\A c \in Rows("PhotoCollection") :
       /\ PendingDeletion(db.PhotoCollection[c])
       /\ db.PhotoCollection[c].scheduledDeletionDate <= now
       /\ cleanupScheduledDeletions
       => /\ \A e \in DOMAIN db'.CollectionPhoto : e[1] # c
          /\ \A p \in Rows("Photo") :
               /\ <<c, p>> \in DOMAIN db.CollectionPhoto
               /\ \A e \in DOMAIN db.CollectionPhoto : e[2] = p => e[1] = c
               => p \notin DOMAIN db'.Photo
    ]_vars

(* ---- C5 ------------------------------------------------------------------ *)
\* C5: in the step in which a PhotoCollection becomes PendingDeletion
\* (deleteCollection, the admin collection delete, cleanupExpiredCollections)
\* every Photo linked to it by a CollectionPhoto edge is PendingDeletion,
\* also when an upload runs in between and when marking one Photo fails.
C5_PhotosMarkedWithCollection ==
  [][\A c \in Rows("PhotoCollection") :
       /\ ~Scheduled(db.PhotoCollection[c])
       /\ c \in DOMAIN db'.PhotoCollection
       /\ PendingDeletion(db'.PhotoCollection[c])
       => \A p \in DOMAIN db'.Photo :
            <<c, p>> \in DOMAIN db'.CollectionPhoto => PendingDeletion(db'.Photo[p])
    ]_vars

(* ---- C6 ------------------------------------------------------------------ *)
\* the restore request on a PendingDeletion vertex x leaves x Active with
\* deletedAt, scheduledDeletionDate and deletionReason null
RestoreClears ==
  \A x \in Entities(db) :
    /\ PendingDeletion(Rec(db, x))
    /\ x[2] \in DOMAIN db'[x[1]]
    /\ Rec(db', x) # Rec(db, x)
    /\ IF x[1] = "PhotoCollection" THEN restoreCollectionOne(x[2])
                                   ELSE restoreOne(x[1], x[2])
    => Rec(db', x) = [Rec(db, x) EXCEPT !.isActive = TRUE,
                                        !.deletedAt = Null,
                                        !.scheduledDeletionDate = Null,
                                        !.deletionReason = NoReason]

\* C6 as stated: restore(X) on a PendingDeletion X leaves it Active with the
\* three deletion fields null, and no later sweep purges X unless
\* markForDeletion is called on X again.
C6_RestoredNeverPurged ==
  [][/\ RestoreClears
     /\ \A x \in restored : ~Vanishes(x)
    ]_vars

\* C6 amended: restore(X) on a PendingDeletion X leaves it Active with the
\* three deletion fields null, and no later sweep purges X unless
\* markForDeletion is called on X again or X is a Guest and the sweep purges
\* the Client that owns it, which is then due.
C6_RestoredPurgedOnlyWithClient ==
  [][/\ RestoreClears
     /\ \A x \in restored :
          Vanishes(x) =>
            /\ x[1] = "Guest"
            /\ \E y \in OwnerOf(db, x) :
                 /\ y[1] = "Client"
                 /\ Vanishes(y)
                 /\ Scheduled(Rec(db, y))
                 /\ Rec(db, y).scheduledDeletionDate <= now
    ]_vars

\* at the end of the horizon, past every date a mark could have set, a
\* restored vertex is Active in a store a sweep has purged from
C6_Witness ==
  /\ now = MaxTime
  /\ \E x \in restored : x[2] \in Rows(x[1]) /\ Active(Rec(db, x))
  /\ \E cls \in Classes : SomePurged(cls)

(* ---- C7 ------------------------------------------------------------------ *)
CascadeReasons == {"Deleted with collection", "Collection expired"}

\* C7: restoring a PhotoCollection restores exactly the Photos that became
\* PendingDeletion with it: a linked Photo marked on its own before the
\* collection was marked stays as it is, a linked Photo marked by the
\* cascade becomes Active.
C7_RestoreOnlyCascaded ==
  [][\A c \in Rows("PhotoCollection"), p \in Rows("Photo") :
       /\ PendingDeletion(db.PhotoCollection[c])
       /\ <<c, p>> \in DOMAIN db.CollectionPhoto
       /\ PendingDeletion(db.Photo[p])
       /\ restoreCollectionOne(c)
       => /\ (db.Photo[p].deletedAt < db.PhotoCollection[c].deletedAt)
               => (db'.Photo[p] = db.Photo[p])
          /\ (/\ db.Photo[p].deletedAt = db.PhotoCollection[c].deletedAt
              /\ db.Photo[p].deletionReason \in CascadeReasons)
               => Active(db'.Photo[p])
    ]_vars

(* ---- C8 ------------------------------------------------------------------ *)
\* C8: a markForDeletion(X, r2) on a vertex X that an earlier
\* markForDeletion(X, r1) left PendingDeletion goes through and leaves X
\* PendingDeletion with deletionReason = r2 and the one pair
\* (deletedAt, scheduledDeletionDate) = (now, now + 7 days) of the second call.
C8_SecondMarkOverwrites ==
  [][\A x \in Entities(db), r2 \in Reasons :
       /\ PendingDeletion(Rec(db, x))
       /\ x[2] \in DOMAIN db'[x[1]]
       /\ Rec(db', x) # Rec(db, x)
       /\ \/ x[1] # "PhotoCollection" /\ adminDeleteOne(x[1], x[2], r2)
          \/ x[1] = "PhotoCollection" /\ CascadeDelete(x[2], r2)
       => Rec(db', x) =
            [Rec(db, x) EXCEPT
               !.isActive = FALSE,
               !.deletedAt = toOrientDBDateTime(now),
               !.scheduledDeletionDate = toOrientDBDateTime(now) + GracePeriod,
               !.deletionReason = r2]
    ]_vars

\* a vertex marked in an earlier week for a reason of its own is
\* PendingDeletion when the admin delete can mark it again
C8_Witness ==
  \E x \in Entities(db) :
    /\ PendingDeletion(Rec(db, x))
    /\ Rec(db, x).deletionReason \notin AdminReasons
    /\ Rec(db, x).deletedAt < toOrientDBDateTime(now)
    /\ CanSchedule

(* ---- C9 ------------------------------------------------------------------ *)
\* C9: a cleanupExpiredCollections pass at now marks, with reason
\* 'Auto-delete timer expired' and scheduledDeletionDate = now + 7 days and
\* together with its linked Photos, every PhotoCollection that is active,
\* not scheduled and has autoDeleteAt <= now, the boundary included, and
\* marks no collection whose autoDeleteAt is null or > now.
C9_ExpiredCollectionsMarked ==
  CanSchedule =>
    LET d2 == cleanupExpiredCollectionsResult(db, now, {}, {})
    IN \A c \in Rows("PhotoCollection") :
         LET col == db.PhotoCollection[c]
         IN /\ (/\ col.isActive
                /\ ~Scheduled(col)
                /\ col.timer # Null
                /\ col.timer <= now)
               => /\ d2.PhotoCollection[c] =
                       [col EXCEPT
                          !.isActive = FALSE,
                          !.deletedAt = toOrientDBDateTime(now),
                          !.scheduledDeletionDate =
                             toOrientDBDateTime(now) + GracePeriod,
                          !.deletionReason = "Auto-delete timer expired"]
                  /\ \A p \in Rows("Photo") :
                       <<c, p>> \in DOMAIN db.CollectionPhoto
                         => PendingDeletion(d2.Photo[p])
            /\ (col.timer = Null \/ col.timer > now)
                 => d2.PhotoCollection[c] = col

(* ---- C10 ----------------------------------------------------------------- *)
\* C10: a cleanupExpiredGuests pass at now sets isActive = false on every
\* Guest with expiresAt <= now and changes nothing else: no deletedAt, no
\* scheduledDeletionDate, no deletionReason, no other vertex, no edge.
C10_ExpiredGuestsDeactivated ==
  LET d2 == cleanupExpiredGuestsResult(db, now)
  IN /\ \A g \in Rows("Guest") :
          db.Guest[g].timer <= now => ~d2.Guest[g].isActive
     /\ \A cls \in Classes : DOMAIN d2[cls] = DOMAIN db[cls]
     /\ \A x \in Entities(db) :
          \/ Rec(d2, x) = Rec(db, x)
          \/ /\ x[1] = "Guest"
             /\ Rec(d2, x) = [Rec(db, x) EXCEPT !.isActive = FALSE]
     /\ d2.CollectionPhoto = db.CollectionPhoto

(* ---- C11 ----------------------------------------------------------------- *)
\* the vertex in slot m of cls is in the store and PendingDeletion
IsPending(cls, m) == m \in Rows(cls) /\ PendingDeletion(db[cls][m])

\* the vertex in slot m of cls has been purged, or restored
PurgedOrRestored(cls, m) == m \notin Rows(cls) \/ ~Scheduled(db[cls][m])

\* the date of the scheduled vertex in slot m of cls has been reached
IsDue(cls, m) ==
  /\ m \in Rows(cls)
  /\ Scheduled(db[cls][m])
  /\ db[cls][m].scheduledDeletionDate <= now

\* the vertex in slot m of cls has been marked again: its date, once
\* reached, lies in the future again
IsPostponed(cls, m) ==
  /\ m \in Rows(cls)
  /\ Scheduled(db[cls][m])
  /\ db[cls][m].scheduledDeletionDate > now

\* C11 as stated: with time advancing and the sweep weakly fair, every
\* vertex that is PendingDeletion and is never restored is eventually purged.
C11_PendingEventuallyPurged ==
  \A cls \in Classes : \A m \in Slots(cls) :
    IsPending(cls, m) ~> PurgedOrRestored(cls, m)

\* some PendingDeletion vertex has reached its date
SomeDue ==
  \E cls \in Classes : \E m \in Slots(cls) :
    IsPending(cls, m) /\ IsDue(cls, m)

\* every vertex has been purged or restored, or has its date in the future
NoneDue ==
  \A cls \in Classes : \A m \in Slots(cls) :
    PurgedOrRestored(cls, m) \/ IsPostponed(cls, m)

\* C11 amended: with time advancing and the sweep weakly fair, every
\* vertex that is PendingDeletion with now >= scheduledDeletionDate is
\* eventually purged, unless it is restored or marked for deletion again
\* before the sweep runs: whenever such vertices exist, a moment follows at
\* which each of them is purged, restored or scheduled for a later date.
C11_DuePurgedUnlessMarkedAgain == SomeDue ~> NoneDue

\* a Guest has been purged on its own date: its Client never was
C11_Witness == SomePurged("Guest") /\ ~SomePurged("Client")

(* ---- C12 ----------------------------------------------------------------- *)
\* the row of session id sid is in the store and has not expired
SessionLive(sid) == sid \in DOMAIN sessions /\ sessions[sid].expiresAt > now

\* C12: refreshToken issues an access token only if a stored session row
\* with the cookie's sessionId exists and its expiresAt > now; without the
\* cookie, with an unknown sessionId or with an expired session it issues no
\* token and changes no stored session.
C12_RefreshOnlyLiveSession ==
  \A cookie \in Cookies : \A rotate \in BOOLEAN :
    LET r == refreshTokenResult(sessions, sessionIds, cookie, rotate, now)
    IN /\ (r.response.token => (cookie # NoCookie /\ SessionLive(cookie)))
       /\ ((cookie = NoCookie \/ ~SessionLive(cookie))
             => (~r.response.token /\ r.sessions = sessions))

\* a refresh has been turned down for a session whose row is still stored,
\* expired
C12_Witness ==
  /\ response.op = "refresh"
  /\ response.status = 403
  /\ response.cookie \in DOMAIN sessions
  /\ sessions[response.cookie].expiresAt <= now

(* ---- C13 ----------------------------------------------------------------- *)
\* a refresh with session id sid gets a token, rotating or not
RefreshSucceeds(s, n, sid, t) ==
  \E rotate \in BOOLEAN :
    refreshTokenResult(s, n, sid, rotate, t).response.token

\* the rows of s that are not in S are in s2 as they were
RowsKept(s, s2, S) ==
  \A m \in DOMAIN s \ S : m \in DOMAIN s2 /\ s2[m] = s[m]

\* C13: once a logout with session s has completed, every later refresh with
\* s fails; once revokeAllUserTokens(p) has completed, every later refresh
\* with a session issued to p before the call fails; neither call touches a
\* session of another principal.
C13_RevokedNeverRefreshes ==
  [][/\ \A sid \in revoked' :
          ~RefreshSucceeds(sessions', sessionIds', sid, now')
     /\ \A cookie \in Cookies :
          logoutOne(cookie) => RowsKept(sessions, sessions', {cookie})
     /\ \A userId \in {sessions[m].userId : m \in DOMAIN sessions} :
          revokeAllOne(userId) =>
            RowsKept(sessions, sessions',
                     {m \in DOMAIN sessions : sessions[m].userId = userId})
    ]_vars

\* a refresh with a logged-out session has been turned down while a live
\* session is in the store
C13_Witness ==
  /\ response.op = "refresh"
  /\ response.status = 403
  /\ response.cookie \in revoked
  /\ \E m \in DOMAIN sessions : SessionLive(m)

(* ---- C14 ----------------------------------------------------------------- *)
\* C14: after rotateSession(old, userId, role), whether the row of old was
\* in the store or already gone, no row with old exists and a refresh with
\* old fails; exactly one row has been added, for userId, under a session id
\* different from old, with expiresAt = now (as stored) + 7 days; every
\* other row is as it was.
C14_Rotate ==
  \A old \in 1..sessionIds : \A cls \in LoginClasses :
    LET userId == Rid(cls, 1)
        s2 == rotateSession(sessions, sessionIds, old, userId, userRole(cls),
                            now)
        new == DOMAIN s2 \ DOMAIN sessions
    IN /\ old \notin DOMAIN s2
       /\ ~RefreshSucceeds(s2, generateSessionId(sessionIds), old, now)
       /\ Cardinality(new) = 1
       /\ \A m \in new :
            /\ m # old
            /\ s2[m] = [userId |-> userId, userRole |-> userRole(cls),
                        expiresAt |-> toOrientDBDateTime(now) + SessionLifetime]
       /\ RowsKept(sessions, s2, {old})

\* a refresh has rotated its session, and the row of another session id
\* handed out earlier is gone
C14_Witness ==
  /\ response.op = "refresh"
  /\ response.newSessionId # NoCookie
  /\ response.cookie \notin DOMAIN sessions
  /\ \E old \in 1..sessionIds :
       old \notin DOMAIN sessions /\ old # response.cookie

(* ---- C15 ----------------------------------------------------------------- *)
\* C15: a session rotation is atomic: while a rotation has not inserted its
\* new row, the row of its old session is in the store, so that no observer
\* and no failure finds the store with neither of the two.
C15_RotationAtomic ==
  \A r \in inflight : r.stage = "revoked" => r.cookie \in DOMAIN sessions

(* ---- C16 ----------------------------------------------------------------- *)
\* the principal with record id userId is in the store with isActive = false
Disabled(userId) ==
  \E cls \in LoginClasses : \E m \in Rows(cls) :
    Rid(cls, m) = userId /\ db[cls][m].isActive = FALSE

\* C16: a principal whose isActive is false obtains no access token: its
\* login is rejected and creates no session, and a refresh with a session
\* that has not expired, issued before it was deactivated, is rejected.
C16_DisabledGetsNoToken ==
  /\ \A cls \in LoginClasses : \A m \in Rows(cls) : \A passwordOk \in BOOLEAN :
       Disabled(Rid(cls, m)) =>
         LET r == loginResult(db, sessions, sessionIds, cls, m, passwordOk,
                              now)
         IN ~r.response.token /\ r.sessions = sessions
  /\ \A sid \in DOMAIN sessions :
       Disabled(sessions[sid].userId) =>
         ~RefreshSucceeds(sessions, sessionIds, sid, now)

(* ---- C17 ----------------------------------------------------------------- *)
\* a permission edge with isActive = false, or with an expiresAt that has
\* been reached
Lapsed(e) == ~e.isActive \/ (e.expiresAt # Null /\ e.expiresAt <= now)

\* the PhotoAccess edges between guest g and photo p, in either direction
EdgesBetween(g, p) ==
  {e \in photoAccess :
     \/ e.in = Rid("Guest", g) /\ e.out = Rid("Photo", p)
     \/ e.out = Rid("Guest", g) /\ e.in = Rid("Photo", p)}

Granted(cl, p) ==
  /\ Active(db.Photo[p])
  /\ \/ \E e \in photoAccess :
          /\ {e.in, e.out} = {Rid("Client", cl), Rid("Photo", p)}
     \/ p \in SharedWith(db, collectionAccess, cl)

\* what the client read paths return to client cl for the photo p, the
\* photos tokens and the collection c of a request
ClientReads(cl, p, tokens, c) ==
  viewPhoto(db, collectionAccess, cl, p)
    \cup downloadPhoto(db, collectionAccess, cl, p)
    \cup downloadZip(db, collectionAccess, cl, tokens)
    \cup clientCollectionPhotos(db, collectionAccess, cl, c)
    \cup getClientCollectionPhotos(db, collectionAccess, cl, c)

\* C18: on the client read paths (photo view, photo download, ZIP download,
\* collection photo listing) a client receives the data only of photos that
\* are Active and granted to it, directly or through a shared collection; a
\* client with no such relationship to a photo is denied on each path.
C18_ClientReadsOnlyGranted ==
  \A cl \in Rows("Client") : \A p \in Rows("Photo") :
    \A tokens \in SUBSET Rows("Photo") : \A c \in Rows("PhotoCollection") :
      \A q \in ClientReads(cl, p, tokens, c) : Granted(cl, q)

(* ---- C19 ----------------------------------------------------------------- *)
\* C19: while a collection shared with a client is PendingDeletion, no
\* client request returns the collection or the data of a photo of it,
\* although the CollectionAccess edge is still there.
C19_PendingCollectionHidden ==
  \A cl \in Rows("Client") : \A c \in Rows("PhotoCollection") :
    (PendingDeletion(db.PhotoCollection[c])
       /\ <<c, cl>> \in DOMAIN collectionAccess)
      => /\ c \notin getClientCollections(db, collectionAccess, cl)
         /\ \A p \in Rows("Photo") : \A tokens \in SUBSET Rows("Photo") :
              <<c, p>> \in DOMAIN db.CollectionPhoto
                => p \notin ClientReads(cl, p, tokens, c)

(* ---- C20 ----------------------------------------------------------------- *)
\* C20: there is at most one CollectionAccess edge for each pair of a
\* collection and a client, and at most one CollectionPhoto edge for each
\* pair of a collection and a photo, concurrent share and add-photos
\* requests for the same pair included.
C20_OneEdgePerPair ==
  /\ \A e \in DOMAIN collectionAccess : collectionAccess[e] <= 1
  /\ \A e \in DOMAIN db.CollectionPhoto : db.CollectionPhoto[e] <= 1

(* ---- C21 ----------------------------------------------------------------- *)
\* the CollectionAccess pairs and the PhotoAccess edges that a step inserts
NewAccessPairs ==
  {e \in DOMAIN collectionAccess' :
     IF e \in DOMAIN collectionAccess
     THEN collectionAccess'[e] > collectionAccess[e]
     ELSE TRUE}

NewPhotoEdges == {e \in photoAccess' \ photoAccess : e.out # NoLink}

\* C21: a grant whose target is inactive or PendingDeletion creates no edge:
\* every step that inserts a CollectionAccess edge finds its collection
\* Active, and every step that inserts a PhotoAccess edge finds its photo
\* Active, at the moment of the insert.
C21_GrantOnlyToActive ==
  [][/\ \A e \in NewAccessPairs :
          /\ e[1] \in DOMAIN db.PhotoCollection
          /\ Active(db.PhotoCollection[e[1]])
     /\ \A e \in NewPhotoEdges :
          /\ IsVertex(db, e.out)
          /\ Active(db.Photo[e.out[3]])]_vars

(* ---- C22 ----------------------------------------------------------------- *)
\* the photos to which the guests of client c hold PhotoAccess edges among
\* the rows PA; every guest of c was created for the one guest email
GuestPhotos(d, PA, c) ==
  {e.out : e \in {x \in PA : /\ x.in # NoLink
                             /\ IsVertex(d, x.in)
                             /\ d.Guest[x.in[3]].owner = Rid("Client", c)}}

\* the photos of the share that a step makes for client c
SharedNow(c) ==
  {e.out : e \in {x \in NewPhotoEdges :
                    /\ IsVertex(db', x.in)
                    /\ db'.Guest[x.in[3]].owner = Rid("Client", c)}}

\* C22: when a client shares a photo set with the guest email after having
\* shared a disjoint set with it, the guests of that client and email hold
\* PhotoAccess edges to exactly the photos of the new set, and to none of
\* the earlier one.
C22_GuestSetReplaced ==
  [][\A c \in Rows("Client") :
       (/\ SharedNow(c) # {}
        /\ GuestPhotos(db, photoAccess, c) # {}
        /\ GuestPhotos(db, photoAccess, c) \cap SharedNow(c) = {})
         => GuestPhotos(db', photoAccess', c) = SharedNow(c)]_vars

(* ---- C23 ----------------------------------------------------------------- *)
\* the photos to which the guests of two requests hold edges
EdgesOfRequests(r1, r2) ==
  {e.out[3] : e \in {x \in photoAccess :
                       x.in \in {Rid("Guest", r1.pair[2]),
                                 Rid("Guest", r2.pair[2])}}}

\* C23: when two concurrent guest shares of one client for the guest email
\* have both created their edges, the PhotoAccess edges of the guest are
\* exactly the photo set of one of the two requests.
C23_ReshareSerialized ==
  \A r1 \in sharing : \A r2 \in sharing :
    (/\ r1 # r2
     /\ r1.edge = "PhotoAccess" /\ r2.edge = "PhotoAccess"
     /\ r1.stage = "granted" /\ r2.stage = "granted"
     /\ r1.pair[1] = r2.pair[1])
      => EdgesOfRequests(r1, r2) \in {r1.photoIds, r2.photoIds}

(* ---- C24 ----------------------------------------------------------------- *)
\* C24: every Photo vertex in the store is linked by at least one
\* CollectionPhoto edge to a collection; an upload whose collectionId does
\* not resolve to an active collection leaves no Photo vertex behind.
C24_PhotoInCollection ==
  \A p \in Rows("Photo") :
    \E c \in Rows("PhotoCollection") : <<c, p>> \in DOMAIN db.CollectionPhoto

(* ---- C25 ----------------------------------------------------------------- *)
\* the collections into which a step links an uploaded photo
UploadedInto ==
  {c \in Rows("PhotoCollection") :
     \E p \in DOMAIN db'.Photo \ DOMAIN db.Photo :
        <<c, p>> \in DOMAIN db'.CollectionPhoto}

\* C25: the first successful upload into a collection whose autoDeleteAt is
\* null sets it to the upload time plus the window; once it is set, later
\* uploads into the collection leave it unchanged.
C25_AutoDeleteSetOnce ==
  [][\A c \in UploadedInto :
       db'.PhotoCollection[c].timer =
         IF db.PhotoCollection[c].timer = Null
         THEN toOrientDBDateTime(now + Days(ExpiryDays))
         ELSE db.PhotoCollection[c].timer]_vars

(* ---- C26 ----------------------------------------------------------------- *)
\* C26: the public lookup returns a photo only when the key presented is
\* the shareToken of an Active photo: a photoId or a record id finds
\* nothing, and a PendingDeletion photo is not served.
C26_PublicOnlyByToken ==
  \A key \in PublicKeys : \A onDisk \in SUBSET Rows("Photo") :
    \A p \in sharePhoto(db, key, onDisk) :
      key = ShareToken(p) /\ Active(db.Photo[p])

\* the lookup has answered not-found to the photoId or record id of an
\* Active photo
C26_Witness ==
  /\ served.path = "sharePhoto"
  /\ served.photos = {}
  /\ \E p \in Rows("Photo") :
       /\ Active(db.Photo[p])
       /\ served.key \in {Uuid("Photo", p), Rid("Photo", p)}

\* the overlapping passes are all through
SweepsThrough == pending # {} /\ \A r \in pending : r.section = SweepDone

\* C27: when overlapping cleanupScheduledDeletions passes, interleaved query
\* by query, are all through, the store is the one a single pass leaves,
\* run on the store the first of them found at the time the last of them
\* read; a DELETE VERTEX of a row the other pass has purged changes nothing
\* and no query of a pass fails.
C27_OverlappingSweepsAsOne ==
  SweepsThrough =>
    \A r \in pending : db = cleanupScheduledDeletionsResult(r.base, r.latest)

\* two passes that ran side by side are through, and they purged a client
\* together with its guest
C27_Witness ==
  /\ Cardinality(pending) = 2
  /\ SweepsThrough
  /\ \E r \in pending : /\ r.base.Client # <<>> /\ r.base.Guest # <<>>
                        /\ db.Client = <<>> /\ db.Guest = <<>>

\* C28: a restore request for an id that resolves to no vertex, because the
\* vertex was purged or the id was never handed out, is answered NotFound
\* and leaves the store as it was.
C28_RestoreOfMissingNotFound ==
  [][(/\ served' # served
      /\ served'.path = "restore"
      /\ ByUuid(db, served'.key[2], served'.key) = {})
       => (served'.status = 404 /\ db' = db)]_vars

\* what the request that answered last has written is in the store: the
\* vertex it inserted, or an edge between the pair it shared
Written ==
  IF served.key[1] = "CollectionAccess"
  THEN /\ <<served.key[2], served.key[3]>> \in DOMAIN collectionAccess
       /\ collectionAccess[<<served.key[2], served.key[3]>>] > 0
  ELSE IsVertex(db, served.key)

\* C29: when the email send fails during createPhotographer, createClient,
\* createGuest or shareCollection, the request still answers success and
\* the vertex or edge it wrote before the send is in the store.
C29_MailFailureKeepsWrite ==
  [][(served' # served /\ served'.mail \in MailFailed)
       => (served'.status \in {200, 201} /\ Written')]_vars

\* the photographer's credentials could not be sent, the photographer is in
\* the store and the answer was 201
C29_Witness ==
  /\ served.path = "createPhotographer"
  /\ served.mail = "throws"
  /\ served.status = 201
  /\ IsVertex(db, served.key)

\* the link r of an edge or of a grant record leads to a vertex of the store
Resolves(r) == r = NoLink \/ IsVertex(db, r)

\* C30: no CollectionAccess, PhotoAccess or CollectionPhoto edge, no
\* PhotoAccess grant record and no guest-of-client link in the store names
\* a Photo, Collection, Client or Guest that has been purged.
C30_NoDanglingGrants ==
  /\ \A e \in photoAccess :
       /\ Resolves(e.out) /\ Resolves(e.in)
       /\ Resolves(e.photoId) /\ Resolves(e.userId)
  /\ \A e \in DOMAIN collectionAccess :
       e[1] \in DOMAIN db.PhotoCollection /\ e[2] \in DOMAIN db.Client
  /\ \A e \in DOMAIN db.CollectionPhoto :
       e[1] \in DOMAIN db.PhotoCollection /\ e[2] \in DOMAIN db.Photo
  /\ \A g \in DOMAIN db.Guest : Resolves(db.Guest[g].owner)

\* the vertices of the store d that are due at t
DueEntities(d, t) ==
  UNION {{<<cls, m>> : m \in Due(d, cls, t)} : cls \in Classes}

\* C31: a store error while a sweep pass purges one entity does not end the
\* pass: when the pass is over, of the entities due at the time it read at
\* most the one whose purge failed is left.  (The auto-expiry pass has the
\* matching property through its try / catch for each collection.)
C31_SweepErrorSkipsOne ==
  [][\A r \in pending :
       (r.section < SweepDone /\ pending' = pending \ {r})
         => Cardinality(DueEntities(db', r.at)) <= 1]_vars

\* C34: a vertex that restore has restored, and that nothing has marked
\* since, is not purged by a sweep pass, even by one that had selected it as
\* due before the restore ran.  A guest is left out: it goes with its
\* client when the client is due.
C34_RestoredSurvivesPass ==
  [][\A x \in restored :
       x[1] # "Guest" => x[2] \in DOMAIN db'[x[1]]]_vars

\* the principals whose lastLogin this step writes
Stamped ==
  {x \in Entities(db) :
     /\ x[2] \in DOMAIN db'[x[1]]
     /\ db'[x[1]][x[2]].lastLogin # db[x[1]][x[2]].lastLogin}

\* C32: lastLogin is written only for a principal that the login in flight
\* has found, found active and verified the password of; and a login that
\* got that far ends with the answer 200, a token and a new session, also
\* when the lastLogin write fails.
C32_LastLoginAfterVerify ==
  [][/\ \A x \in Stamped :
          \E r \in inflight :
            r.stage = "verified" /\ r.userId = Rid(x[1], x[2])
     /\ (inflight # {} /\ inflight' = {})
          => /\ response'.status = 200
             /\ response'.token
             /\ sessionIds' = generateSessionId(sessionIds)]_vars

\* C33: a collection that restore has restored stays Active until a delete
\* request marks it: the cleanupExpiredCollections pass does not mark it
\* again, whatever had marked it before the restore.
C33_RestoredCollectionNotExpiredAgain ==
  [][\A x \in restored :
       (/\ x[1] = "PhotoCollection"
        /\ x[2] \in DOMAIN db'.PhotoCollection
        /\ Scheduled(db'.PhotoCollection[x[2]]))
         => db'.PhotoCollection[x[2]].deletionReason
              # "Auto-delete timer expired"]_vars

\* the session rows that a refresh would accept now
ValidSessions ==
  {sid \in DOMAIN sessions : validateSessionId(sessions, sid, now) # {}}

\* C35: with rotation on, concurrent refresh calls that present the same
\* sessionId leave at most one valid session row descended from it: after
\* one login, whatever the rotations in flight, the store never holds two
\* valid session rows.
C35_RotationKeepsOneSession == Cardinality(ValidSessions) <= 1

\* C36: a vertex with scheduledDeletionDate set has isActive = false: no
\* request but restore, and in particular neither toggleGuestAccess nor
\* togglePhotographerStatus, makes a vertex pending deletion active.
C36_ScheduledIsInactive ==
  \A x \in Entities(db) : Scheduled(Rec(db, x)) => ~Rec(db, x).isActive

\* C37: the deletion fields of a vertex go together: deletedAt,
\* scheduledDeletionDate and deletionReason are all null or all set,
\* whichever of markForDeletion, cleanupExpiredCollections, the collection
\* cleanup script and restore has written them.
C37_DeletionFieldsTogether ==
  \A x \in Entities(db) :
    LET rec == Rec(db, x)
    IN \/ /\ rec.deletedAt = Null
          /\ rec.scheduledDeletionDate = Null
          /\ rec.deletionReason = NoReason
       \/ /\ rec.deletedAt # Null
          /\ rec.scheduledDeletionDate # Null
          /\ rec.deletionReason # NoReason

\* C38: markForDeletion followed by restore gives a vertex back the isActive
\* it had before the mark.  Where every guest pending deletion was disabled
\* and unscheduled when it was marked, a guest that is still disabled when
\* it stops being pending deletion is left disabled.
C38_RoundTripKeepsDisabled ==
  [][\A g \in DOMAIN db.Guest \cap DOMAIN db'.Guest :
       (/\ Scheduled(db.Guest[g])
        /\ ~db.Guest[g].isActive
        /\ ~Scheduled(db'.Guest[g]))
       => ~db'.Guest[g].isActive]_vars
====
